---- MODULE Spec2Model ----
(***************************************************************************)
(* Model of the claude-file-recovery engine: the replay of a file's        *)
(* operation timeline (core/reconstructor.py), the transcript scan and its *)
(* aggregation (core/scanner.py), the symlink merge (core/symlinks/        *)
(* merge.py), the time-bounded view (core/filters.py) and the injection    *)
(* stripper (core/injection.py).                                           *)
(*                                                                         *)
(* Text is a sequence of one-character strings; Python's None is the       *)
(* one-element sequence None for text and NoInt for integers.              *)
(***************************************************************************)
EXTENDS Integers, Sequences, FiniteSets, TLC

VARIABLES
    operations,         \* replay: the timeline handed to the reconstructor
    call,               \* replay: the last query made, [fn, arg]
    result,             \* replay: what that query returned
    heap,               \* the FileOperation objects, by identity
    jsonl_files,        \* scan: transcript path -> what scan_session gives for it
    futures,            \* scan: transcripts as_completed has not yielded yet
    all_ops,            \* scan: scan_all_sessions' all_ops (object ids)
    completed,          \* scan: scan_all_sessions' completed counter
    raw_file_index,     \* the index scan_all_sessions returned (path -> ids)
    file_index,         \* the index the caller currently holds
    pc                  \* where the pipeline stands

vars == <<operations, call, result, heap, jsonl_files, futures, all_ops,
          completed, raw_file_index, file_index, pc>>

(***************************************************************************)
(* Values                                                                  *)
(***************************************************************************)
None == <<"None">>
NoInt == -1
LF == "\n"

WRITE_CREATE == "write_create"
WRITE_UPDATE == "write_update"
EDIT == "edit"
READ == "read"
FILE_HISTORY == "file_history"

Min(a, b) == IF a <= b THEN a ELSE b
Max(a, b) == IF a >= b THEN a ELSE b

\* Python truthiness of an int | None
Truthy(n) == n # NoInt /\ n # 0
\* Python `a or b` on int | None
IntOr(a, b) == IF Truthy(a) THEN a ELSE b

(***************************************************************************)
(* Text primitives (Python str methods), computed as CPython computes them *)
(***************************************************************************)
\* s[i:j] with 0-based, already clamped bounds
Slice(s, i, j) == IF j <= i THEN <<>> ELSE SubSeq(s, i + 1, j)

\* s.startswith(p) at 0-based offset i
MatchAt(s, p, i) ==
    /\ i + Len(p) <= Len(s)
    /\ \A k \in 1..Len(p) : s[i + k] = p[k]

\* s.find(p, from): lowest 0-based offset >= from, or -1
Find(s, p, from) ==
    LET hits == {i \in from..(Len(s) - Len(p)) : MatchAt(s, p, i)}
    IN  IF hits = {} THEN -1 ELSE CHOOSE i \in hits : \A j \in hits : i <= j

\* s.rfind(p): highest 0-based offset, or -1
RFind(s, p) ==
    LET hits == {i \in 0..(Len(s) - Len(p)) : MatchAt(s, p, i)}
    IN  IF hits = {} THEN -1 ELSE CHOOSE i \in hits : \A j \in hits : i >= j

\* p in s
Contains(s, p) == Find(s, p, 0) >= 0

\* s.replace(old, new, count) for non-empty old; count < 0 means all
RECURSIVE Replace(_, _, _, _)
Replace(s, old, new, count) ==
    LET i == Find(s, old, 0)
    IN  IF count = 0 \/ i < 0 THEN s
        ELSE Slice(s, 0, i) \o new
             \o Replace(Slice(s, i + Len(old), Len(s)), old, new, count - 1)

\* s.split("\n")
RECURSIVE SplitLines(_)
SplitLines(s) ==
    LET i == Find(s, <<LF>>, 0)
    IN  IF i < 0 THEN <<s>>
        ELSE <<Slice(s, 0, i)>> \o SplitLines(Slice(s, i + 1, Len(s)))

\* "\n".join(lines)
RECURSIVE JoinLines(_)
JoinLines(lines) ==
    IF Len(lines) = 0 THEN <<>>
    ELSE IF Len(lines) = 1 THEN lines[1]
    ELSE lines[1] \o <<LF>> \o JoinLines(Tail(lines))

IsSpace(c) == c \in {" ", LF}

\* s.rstrip()
RECURSIVE RStrip(_)
RStrip(s) ==
    IF Len(s) > 0 /\ IsSpace(s[Len(s)]) THEN RStrip(SubSeq(s, 1, Len(s) - 1))
    ELSE s

\* s.lstrip()
RECURSIVE LStrip(_)
LStrip(s) == IF Len(s) > 0 /\ IsSpace(s[1]) THEN LStrip(Tail(s)) ELSE s

\* s.strip()
Strip(s) == LStrip(RStrip(s))

\* [""] * n
EmptyLines(n) == [k \in 1..Max(n, 0) |-> <<>>]


(***************************************************************************)
(* core/models.py: FileOperation                                           *)
(***************************************************************************)
\* FileOperation(type, file_path, timestamp, session_id) with the dataclass
\* defaults for every other field
FileOperation(type, file_path, timestamp, session_id) ==
    [type |-> type, file_path |-> file_path, timestamp |-> timestamp,
     session_id |-> session_id,
     content |-> None, original_file |-> None,
     old_string |-> None, new_string |-> None, replace_all |-> FALSE,
     read_offset |-> NoInt, read_limit |-> NoInt,
     read_start_line |-> NoInt, read_num_lines |-> NoInt,
     read_total_lines |-> NoInt,
     is_error |-> FALSE, error_message |-> None,
     tool_use_id |-> None, is_subagent |-> FALSE,
     line_number |-> 0, source_path |-> None]

\* RecoverableFile.has_full_content over the file's operations
HasFullContent(ops) ==
    \E k \in 1..Len(ops) :
        \/ ops[k].type \in {WRITE_CREATE, WRITE_UPDATE, FILE_HISTORY}
        \/ /\ ops[k].type = READ
           /\ ops[k].read_offset = NoInt
           /\ ops[k].read_limit = NoInt

(***************************************************************************)
(* core/reconstructor.py                                                   *)
(***************************************************************************)
\* mutant: replace_all is ignored, every occurrence is always replaced
ApplyEditAlwaysAll(content, old_string, new_string, replace_all) ==
    IF Len(old_string) = 0 THEN content
    ELSE Replace(content, old_string, new_string, -1)

ApplyEdit(content, old_string, new_string, replace_all) ==
    IF Len(old_string) = 0 THEN content
    ELSE IF replace_all THEN Replace(content, old_string, new_string, -1)
    ELSE Replace(content, old_string, new_string, 1)

\* lines[start : start + n] = new_lines, for 0 <= start (Python clamps both
\* ends of the slice to len(lines))
SliceAssign(lines, start, new_lines) ==
    LET lo == Min(start, Len(lines))
        hi == Min(Max(start + Len(new_lines), lo), Len(lines))
    IN  Slice(lines, 0, lo) \o new_lines \o Slice(lines, hi, Len(lines))

\* mutant: total_lines is ignored, the lines reach only to the end of the window
SpliceReadNoTotal(existing, new_content, start_line, num_lines, total_lines) ==
    LET new_lines == SplitLines(new_content)
        start == IF Truthy(start_line) THEN start_line - 1 ELSE 0
        target_len == start + Len(new_lines)
        old_lines == IF existing = None THEN <<>> ELSE SplitLines(existing)
        lines == IF existing = None THEN EmptyLines(target_len)
                 ELSE IF Len(old_lines) < target_len
                      THEN old_lines \o EmptyLines(target_len - Len(old_lines))
                      ELSE old_lines
    IN  JoinLines(SliceAssign(lines, start, new_lines))

SpliceRead(existing, new_content, start_line, num_lines, total_lines) ==
    LET new_lines == SplitLines(new_content)
        start == IF Truthy(start_line) THEN start_line - 1 ELSE 0
        target_len == IntOr(total_lines, start + Len(new_lines))
        old_lines == IF existing = None THEN <<>> ELSE SplitLines(existing)
        lines == IF existing = None THEN EmptyLines(target_len)
                 ELSE IF Len(old_lines) < target_len
                      THEN old_lines \o EmptyLines(target_len - Len(old_lines))
                      ELSE old_lines
    IN  JoinLines(SliceAssign(lines, start, new_lines))

\* mutant: the response metadata is ignored, only the request decides
IsFullReadRequestOnly(op) ==
    op.read_offset = NoInt /\ op.read_limit = NoInt

\* the is_full decision of reconstruct_file_at
IsFullRead(op) ==
    IF op.read_start_line # NoInt
    THEN op.read_start_line = 1 /\ op.read_num_lines = op.read_total_lines
    ELSE op.read_offset = NoInt /\ op.read_limit = NoInt

\* mutant: original_file is only a fallback for an unknown running content
ReplayEditNoRebase(content, op) ==
    LET base == IF content # None THEN content ELSE op.original_file
    IN  IF base # None /\ op.old_string # None /\ op.new_string # None
        THEN ApplyEdit(base, op.old_string, op.new_string, op.replace_all)
        ELSE base

\* the Edit branch of the replay loop
ReplayEdit(content, op) ==
    LET base == IF op.original_file # None THEN op.original_file ELSE content
    IN  IF base # None /\ op.old_string # None /\ op.new_string # None
        THEN ApplyEdit(base, op.old_string, op.new_string, op.replace_all)
        ELSE base

\* the Read branch of the replay loop
ReplayRead(content, op) ==
    IF op.content = None THEN content
    ELSE IF IsFullRead(op) THEN op.content
    ELSE SpliceRead(content, op.content,
                    IntOr(op.read_start_line, op.read_offset),
                    op.read_num_lines, op.read_total_lines)

\* one iteration of the loop of reconstruct_file_at
ReplayOp(content, op) ==
    IF op.type \in {WRITE_CREATE, WRITE_UPDATE} THEN op.content
    ELSE IF op.type = READ THEN ReplayRead(content, op)
    ELSE IF op.type = FILE_HISTORY
         THEN (IF op.content # None THEN op.content ELSE content)
    ELSE IF op.type = EDIT THEN ReplayEdit(content, op)
    ELSE content

RECURSIVE ReplayFrom(_, _)
ReplayFrom(content, ops) ==
    IF Len(ops) = 0 THEN content
    ELSE ReplayFrom(ReplayOp(content, Head(ops)), Tail(ops))

\* reconstruct_file_at(operations, up_to_index), up_to_index >= -1 (0-based)
ReconstructFileAt(ops, up_to_index) ==
    ReplayFrom(None, SubSeq(ops, 1, Min(up_to_index + 1, Len(ops))))

ReconstructLatest(ops) ==
    IF Len(ops) = 0 THEN None ELSE ReconstructFileAt(ops, Len(ops) - 1)

\* mutant: bisect_left, which stops before the operations at the cutoff itself
RECURSIVE BisectLeft(_, _, _, _)
BisectLeft(a, x, lo, hi) ==
    IF lo >= hi THEN lo
    ELSE LET mid == (lo + hi) \div 2
         IN  IF a[mid + 1] < x THEN BisectLeft(a, x, mid + 1, hi)
             ELSE BisectLeft(a, x, lo, mid)

\* bisect.bisect_right(a, x, lo, hi)
RECURSIVE BisectRight(_, _, _, _)
BisectRight(a, x, lo, hi) ==
    IF lo >= hi THEN lo
    ELSE LET mid == (lo + hi) \div 2
         IN  IF x < a[mid + 1] THEN BisectRight(a, x, lo, mid)
             ELSE BisectRight(a, x, mid + 1, hi)

ReconstructAtTimestamp(ops, before_ts) ==
    IF Len(ops) = 0 THEN None
    ELSE LET timestamps == [k \in 1..Len(ops) |-> ops[k].timestamp]
             idx == BisectRight(timestamps, before_ts, 0, Len(ops)) - 1
         IN  IF idx < 0 THEN None ELSE ReconstructFileAt(ops, idx)


(***************************************************************************)
(* core/scanner.py                                                         *)
(*                                                                         *)
(* A transcript path is a sequence of parts and a part a sequence of       *)
(* tokens: the file name "s1.jsonl.backup.1" is <<"s1", ".jsonl",          *)
(* ".backup.1">>.                                                          *)
(***************************************************************************)
IsSubagentFile(path) == \E k \in 1..Len(path) : path[k] = <<"subagents">>

\* name.split(".jsonl")[0]
RECURSIVE BeforeJsonl(_)
BeforeJsonl(name) ==
    IF Len(name) = 0 \/ Head(name) = ".jsonl" THEN <<>>
    ELSE <<Head(name)>> \o BeforeJsonl(Tail(name))

\* mutant: the subagent directory is not looked at, the file's own name is used
ExtractSessionIdFromName(path) == BeforeJsonl(path[Len(path)])

ExtractSessionId(path) ==
    IF IsSubagentFile(path)
    THEN LET idx == CHOOSE k \in 1..Len(path) :
                        /\ path[k] = <<"subagents">>
                        /\ \A j \in 1..(k - 1) : path[j] # <<"subagents">>
         IN  path[idx - 1]
    ELSE BeforeJsonl(path[Len(path)])

\* mutant: the pre-edit file that came with the result is not looked at
IsNoopEditWithoutOriginal(op) ==
    IF op.type # EDIT THEN FALSE
    ELSE IF op.is_error THEN FALSE
    ELSE IF op.old_string = None \/ op.new_string = None THEN TRUE
    ELSE IF Len(op.old_string) = 0 THEN TRUE
    ELSE IF op.old_string = op.new_string THEN TRUE
    ELSE FALSE

IsNoopEdit(op) ==
    IF op.type # EDIT THEN FALSE
    ELSE IF op.is_error THEN FALSE
    ELSE IF op.old_string = None \/ op.new_string = None THEN TRUE
    ELSE IF Len(op.old_string) = 0 THEN TRUE
    ELSE IF op.old_string = op.new_string THEN TRUE
    ELSE IF op.original_file # None /\ ~Contains(op.original_file, op.old_string)
         THEN TRUE
    ELSE FALSE

\* mutant: an errored Edit is judged like any other Edit
FilterEditJudgingErrored(content, op) ==
    IF op.original_file # None
    THEN LET after_edit ==
                 IF op.old_string # None /\ op.new_string # None
                 THEN ApplyEdit(op.original_file, op.old_string,
                                op.new_string, op.replace_all)
                 ELSE op.original_file
         IN  [content |-> after_edit, keep |-> after_edit # op.original_file]
    ELSE LET after ==
                 IF content # None /\ op.old_string # None /\ op.new_string # None
                 THEN ApplyEdit(content, op.old_string, op.new_string,
                                op.replace_all)
                 ELSE content
         IN  [content |-> after, keep |-> after # content]

\* the Edit branch of _filter_noop_edits_by_replay: the running content after
\* the Edit and whether the Edit is kept
FilterEdit(content, op) ==
    IF op.is_error THEN [content |-> content, keep |-> TRUE]
    ELSE IF op.original_file # None
    THEN LET after_edit ==
                 IF op.old_string # None /\ op.new_string # None
                 THEN ApplyEdit(op.original_file, op.old_string,
                                op.new_string, op.replace_all)
                 ELSE op.original_file
         IN  [content |-> after_edit, keep |-> after_edit # op.original_file]
    ELSE LET after ==
                 IF content # None /\ op.old_string # None /\ op.new_string # None
                 THEN ApplyEdit(content, op.old_string, op.new_string,
                                op.replace_all)
                 ELSE content
         IN  [content |-> after, keep |-> after # content]

\* one iteration of the loop of _filter_noop_edits_by_replay
FilterStep(content, op) ==
    IF op.type \in {WRITE_CREATE, WRITE_UPDATE}
    THEN [content |-> op.content, keep |-> TRUE]
    ELSE IF op.type = READ
    THEN [content |->
              IF op.content = None THEN content
              ELSE IF IsFullRead(op) THEN op.content
              ELSE SpliceRead(content, op.content,
                              IntOr(op.read_start_line, op.read_offset),
                              op.read_num_lines, op.read_total_lines),
          keep |-> TRUE]
    ELSE IF op.type = FILE_HISTORY
    THEN [content |-> IF op.content # None THEN op.content ELSE content,
          keep |-> TRUE]
    ELSE IF op.type = EDIT THEN FilterEdit(content, op)
    ELSE [content |-> content, keep |-> TRUE]

\* _filter_noop_edits_by_replay over object ids, from a running content
RECURSIVE FilterFrom(_, _, _)
FilterFrom(h, content, ids) ==
    IF Len(ids) = 0 THEN <<>>
    ELSE LET step == FilterStep(content, h[Head(ids)])
         IN  (IF step.keep THEN <<Head(ids)>> ELSE <<>>)
             \o FilterFrom(h, step.content, Tail(ids))

FilterNoopEditsByReplay(h, ids) == FilterFrom(h, None, ids)

\* session ids are compared as strings: "s1" < "s2"
SessionRank(sid) == IF sid = <<"s1">> THEN 1 ELSE IF sid = <<"s2">> THEN 2 ELSE 3

\* mutant: the timestamp alone is the sort key
TimestampLess(a, b) == a.timestamp < b.timestamp

\* (timestamp, session_id, line_number) of a is below that of b
SortKeyLess(a, b) ==
    \/ a.timestamp < b.timestamp
    \/ /\ a.timestamp = b.timestamp
       /\ \/ SessionRank(a.session_id) < SessionRank(b.session_id)
          \/ /\ a.session_id = b.session_id
             /\ a.line_number < b.line_number

\* insert id behind every element whose key is not above its own
RECURSIVE InsertByKey(_, _, _)
InsertByKey(h, sorted, id) ==
    IF Len(sorted) = 0 THEN <<id>>
    ELSE IF SortKeyLess(h[id], h[Head(sorted)]) THEN <<id>> \o sorted
    ELSE <<Head(sorted)>> \o InsertByKey(h, Tail(sorted), id)

\* mutant: the list is left in the order the operations arrived in
UnsortedOps(h, ids) == ids

\* list.sort(key=lambda o: (o.timestamp, o.session_id, o.line_number)): stable
RECURSIVE SortOps(_, _)
SortOps(h, ids) ==
    IF Len(ids) = 0 THEN <<>>
    ELSE InsertByKey(h, SortOps(h, SubSeq(ids, 1, Len(ids) - 1)), ids[Len(ids)])

\* An index is a dict path -> RecoverableFile, kept as the sequence of its
\* entries in insertion order.
HasPath(index, path) == \E k \in 1..Len(index) : index[k].path = path

OpsOf(index, path) ==
    IF HasPath(index, path)
    THEN (CHOOSE e \in {index[k] : k \in 1..Len(index)} : e.path = path).operations
    ELSE <<>>

\* files[path].operations.append(id), creating the entry when it is missing
AppendTo(index, path, id) ==
    IF HasPath(index, path)
    THEN [k \in 1..Len(index) |->
            IF index[k].path = path
            THEN [index[k] EXCEPT !.operations = Append(@, id)]
            ELSE index[k]]
    ELSE Append(index, [path |-> path, operations |-> <<id>>])

\* the grouping loop of scan_all_sessions
RECURSIVE GroupByPath(_, _, _)
GroupByPath(h, index, ids) ==
    IF Len(ids) = 0 THEN index
    ELSE GroupByPath(h, AppendTo(index, h[Head(ids)].file_path, Head(ids)),
                     Tail(ids))

\* scan_all_sessions after its worker loop: group, sort, drop no-op Edits
Aggregated(h, ids) ==
    LET files == GroupByPath(h, <<>>, ids)
    IN  [k \in 1..Len(files) |->
            [files[k] EXCEPT !.operations =
                FilterNoopEditsByReplay(h, SortOps(h, files[k].operations))]]

\* what scan_session returns for a transcript: its operations in line order
\* without the field-level no-op Edits
ScanSession(h, transcript) ==
    SelectSeq(transcript.parsed, LAMBDA id : ~IsNoopEdit(h[id]))

(***************************************************************************)
(* core/scanner.py: scan_session line by line                              *)
(*                                                                         *)
(* A transcript line is kept by the shape of its JSON value: "undecodable" *)
(* (orjson raises JSONDecodeError), "progress" (the fast reject),          *)
(* "not_object" (valid JSON that is a list, a string, a number or null)    *)
(* and "object".  `message` tells whether the entry's message is an        *)
(* object, is missing, or is a value of another type.  Externalized        *)
(* outputs (persistedOutputPath) are left out.                             *)
(***************************************************************************)
NoToolUseResult ==
    [kind |-> "none", text |-> <<>>, filePath |-> None, type |-> "",
     content |-> None, originalFile |-> None, oldString |-> None,
     newString |-> None, hasReplaceAll |-> FALSE, replaceAll |-> FALSE,
     hasFile |-> FALSE, file_filePath |-> None, startLine |-> NoInt,
     numLines |-> NoInt, totalLines |-> NoInt]

\* a toolUseResult object naming filePath
ToolUseResult(filePath) ==
    [NoToolUseResult EXCEPT !.kind = "dict", !.filePath = filePath]

\* a Read's toolUseResult: the path and the window are inside `file`
ReadResult(filePath, startLine, numLines, totalLines) ==
    [NoToolUseResult EXCEPT !.kind = "dict", !.type = "text",
                            !.hasFile = TRUE, !.file_filePath = filePath,
                            !.startLine = startLine, !.numLines = numLines,
                            !.totalLines = totalLines]

NoInput ==
    [file_path |-> None, content |-> None, old_string |-> None,
     new_string |-> None, replace_all |-> FALSE, offset |-> NoInt,
     limit |-> NoInt]

\* a block of message.content
Block(type) ==
    [type |-> type, name |-> "", id |-> None, input |-> NoInput,
     tool_use_id |-> None, is_error |-> FALSE, content |-> <<>>]

ToolUse(name, id, input) ==
    [Block("tool_use") EXCEPT !.name = name, !.id = id, !.input = input]

ToolResult(tool_use_id, is_error, content) ==
    [Block("tool_result") EXCEPT !.tool_use_id = tool_use_id,
                                 !.is_error = is_error, !.content = content]

\* a transcript line holding a JSON object
Entry(type, timestamp) ==
    [shape |-> "object", type |-> type, timestamp |-> timestamp, cwd |-> None,
     message |-> "missing", content |-> <<>>,
     toolUseResult |-> NoToolUseResult, tracked |-> <<>>]

\* a transcript line of another shape
Line(shape) == [Entry("", 0) EXCEPT !.shape = shape]

\* str.split("/") of a path kept as tokens
RECURSIVE SplitPath(_)
SplitPath(path) ==
    LET i == Find(path, <<"/">>, 0)
    IN  IF i < 0 THEN <<path>>
        ELSE <<Slice(path, 0, i)>> \o SplitPath(Slice(path, i + 1, Len(path)))

\* the component stack of os.path.normpath
RECURSIVE NormParts(_, _, _)
NormParts(parts, stack, rooted) ==
    IF Len(parts) = 0 THEN stack
    ELSE LET part == Head(parts)
         IN  IF part = <<>> \/ part = <<".">>
             THEN NormParts(Tail(parts), stack, rooted)
             ELSE IF part = <<"..">>
             THEN IF Len(stack) > 0 /\ stack[Len(stack)] # <<"..">>
                  THEN NormParts(Tail(parts), SubSeq(stack, 1, Len(stack) - 1),
                                 rooted)
                  ELSE IF rooted THEN NormParts(Tail(parts), stack, rooted)
                  ELSE NormParts(Tail(parts), Append(stack, part), rooted)
             ELSE NormParts(Tail(parts), Append(stack, part), rooted)

RECURSIVE JoinPath(_)
JoinPath(parts) ==
    IF Len(parts) = 0 THEN <<>>
    ELSE IF Len(parts) = 1 THEN parts[1]
    ELSE parts[1] \o <<"/">> \o JoinPath(Tail(parts))

\* os.path.isabs
IsAbs(path) == Len(path) > 0 /\ path[1] = "/"

\* os.path.normpath (one leading slash)
NormPath(path) ==
    LET stack == NormParts(SplitPath(path), <<>>, IsAbs(path))
    IN  IF IsAbs(path) THEN <<"/">> \o JoinPath(stack)
        ELSE IF Len(stack) = 0 THEN <<".">>
        ELSE JoinPath(stack)

\* os.path.join(a, b)
OsPathJoin(a, b) ==
    IF IsAbs(b) THEN b
    ELSE IF Len(a) = 0 \/ a[Len(a)] = "/" THEN a \o b
    ELSE a \o <<"/">> \o b

\* d[key] = value on a dict kept as a sequence of <<key, value>> in insertion
\* order: a key already there keeps its place
DictSet(d, key, value) ==
    IF \E k \in 1..Len(d) : d[k][1] = key
    THEN [k \in 1..Len(d) |-> IF d[k][1] = key THEN <<key, value>> ELSE d[k]]
    ELSE Append(d, <<key, value>>)

\* truthiness of a str | None value
TextTruthy(x) == x # None /\ Len(x) > 0

Arrow == "->"         \* the character U+2192 of the Read tool's line prefixes
Digits == {"0", "1", "2", "3", "4", "5", "6", "7", "8", "9"}

RECURSIVE LeadingDigits(_)
LeadingDigits(t) ==
    IF Len(t) > 0 /\ Head(t) \in Digits THEN 1 + LeadingDigits(Tail(t)) ELSE 0

\* one line of strip_read_line_numbers: re.match(r"^\s*\d+→(.*)", line)
StripLineNumber(line) ==
    LET t == LStrip(line)
        n == LeadingDigits(t)
    IN  IF n >= 1 /\ Len(t) > n /\ t[n + 1] = Arrow
        THEN SubSeq(t, n + 2, Len(t))
        ELSE line

StripReadLineNumbers(text) ==
    LET lines == SplitLines(text)
    IN  JoinLines([k \in 1..Len(lines) |-> StripLineNumber(lines[k])])

\* the error message of a tool_result block: the text between the tags when
\* the content starts with <tool_use_error> and closes it, else the content
ErrorMessage(raw) ==
    LET closers == {k \in 2..Len(raw) : raw[k] = "</tool_use_error>"}
    IN  IF Len(raw) > 0 /\ raw[1] = "<tool_use_error>" /\ closers # {}
        THEN Strip(SubSeq(raw, 2, (CHOOSE k \in closers :
                                      \A j \in closers : j <= k) - 1))
        ELSE Strip(raw)

\* pending_ops.get(id): the position in ops of the pending operation, 0 if none
PendingAt(pending, id) ==
    IF \E k \in 1..Len(pending) : pending[k][1] = id
    THEN (CHOOSE e \in {pending[k] : k \in 1..Len(pending)} : e[1] = id)[2]
    ELSE 0

\* mutant: the first pending operation on the path is taken, not the last
EnrichFirstPending(ops, pending, res) ==
    LET file_path == IF TextTruthy(res.filePath) THEN res.filePath
                     ELSE IF res.hasFile /\ TextTruthy(res.file_filePath)
                          THEN res.file_filePath
                          ELSE <<>>
        hits == {k \in 1..Len(pending) : ops[pending[k][2]].file_path = file_path}
        m == pending[CHOOSE k \in hits : \A j \in hits : k <= j][2]
        op == ops[m]
    IN  IF Len(file_path) = 0 \/ hits = {} THEN ops
        ELSE IF res.type = "create"
        THEN [ops EXCEPT ![m] = [op EXCEPT !.type = WRITE_CREATE,
                                           !.content = res.content,
                                           !.original_file = None]]
        ELSE IF res.type = "update"
        THEN [ops EXCEPT ![m] = [op EXCEPT !.type = WRITE_UPDATE,
                                           !.content = res.content,
                                           !.original_file = res.originalFile]]
        ELSE IF op.type = EDIT
        THEN [ops EXCEPT ![m] =
                [op EXCEPT !.original_file = res.originalFile,
                           !.old_string = IF TextTruthy(res.oldString)
                                          THEN res.oldString ELSE @,
                           !.new_string = IF res.newString # None
                                          THEN res.newString ELSE @,
                           !.replace_all = IF res.hasReplaceAll
                                           THEN res.replaceAll ELSE @]]
        ELSE IF op.type = READ /\ res.hasFile
        THEN [ops EXCEPT ![m] =
                [op EXCEPT !.read_start_line = IF res.startLine # NoInt
                                               THEN res.startLine ELSE @,
                           !.read_num_lines = IF res.numLines # NoInt
                                              THEN res.numLines ELSE @,
                           !.read_total_lines = IF res.totalLines # NoInt
                                                THEN res.totalLines ELSE @]]
        ELSE ops

\* _enrich_from_tool_use_result(result, pending_ops): the operations afterwards
EnrichFromToolUseResult(ops, pending, res) ==
    LET file_path == IF TextTruthy(res.filePath) THEN res.filePath
                     ELSE IF res.hasFile /\ TextTruthy(res.file_filePath)
                          THEN res.file_filePath
                          ELSE <<>>
        hits == {k \in 1..Len(pending) : ops[pending[k][2]].file_path = file_path}
        m == pending[CHOOSE k \in hits : \A j \in hits : j <= k][2]
        op == ops[m]
    IN  IF Len(file_path) = 0 \/ hits = {} THEN ops
        ELSE IF res.type = "create"
        THEN [ops EXCEPT ![m] = [op EXCEPT !.type = WRITE_CREATE,
                                           !.content = res.content,
                                           !.original_file = None]]
        ELSE IF res.type = "update"
        THEN [ops EXCEPT ![m] = [op EXCEPT !.type = WRITE_UPDATE,
                                           !.content = res.content,
                                           !.original_file = res.originalFile]]
        ELSE IF op.type = EDIT
        THEN [ops EXCEPT ![m] =
                [op EXCEPT !.original_file = res.originalFile,
                           !.old_string = IF TextTruthy(res.oldString)
                                          THEN res.oldString ELSE @,
                           !.new_string = IF res.newString # None
                                          THEN res.newString ELSE @,
                           !.replace_all = IF res.hasReplaceAll
                                           THEN res.replaceAll ELSE @]]
        ELSE IF op.type = READ /\ res.hasFile
        THEN [ops EXCEPT ![m] =
                [op EXCEPT !.read_start_line = IF res.startLine # NoInt
                                               THEN res.startLine ELSE @,
                           !.read_num_lines = IF res.numLines # NoInt
                                              THEN res.numLines ELSE @,
                           !.read_total_lines = IF res.totalLines # NoInt
                                                THEN res.totalLines ELSE @]]
        ELSE ops

\* the operation built from a tool_use block, its type given
FromToolUse(type, block, entry, session_id, is_subagent, line_num) ==
    [FileOperation(type, block.input.file_path, entry.timestamp, session_id)
        EXCEPT !.tool_use_id = block.id,
               !.is_subagent = is_subagent,
               !.line_number = line_num,
               !.content = IF type = WRITE_CREATE THEN block.input.content ELSE @,
               !.old_string = IF type = EDIT THEN block.input.old_string ELSE @,
               !.new_string = IF type = EDIT THEN block.input.new_string ELSE @,
               !.replace_all = IF type = EDIT THEN block.input.replace_all ELSE @,
               !.read_offset = IF type = READ THEN block.input.offset ELSE @,
               !.read_limit = IF type = READ THEN block.input.limit ELSE @]

\* ops.append(op) and, for a truthy id, pending_ops[op.tool_use_id] = op
Emit(st, op) ==
    [st EXCEPT !.ops = Append(@, op),
               !.pending = IF TextTruthy(op.tool_use_id)
                           THEN DictSet(@, op.tool_use_id, Len(st.ops) + 1)
                           ELSE @]

\* one block of an assistant entry
AssistantBlock(st, block, entry, session_id, is_subagent, line_num) ==
    IF block.type # "tool_use" THEN st
    ELSE IF ~TextTruthy(block.input.file_path) THEN st
    ELSE IF block.name = "Write"
    THEN Emit(st, FromToolUse(WRITE_CREATE, block, entry, session_id,
                              is_subagent, line_num))
    ELSE IF block.name = "Edit"
    THEN Emit(st, FromToolUse(EDIT, block, entry, session_id, is_subagent,
                              line_num))
    ELSE IF block.name = "Read"
    THEN Emit(st, FromToolUse(READ, block, entry, session_id, is_subagent,
                              line_num))
    ELSE st

RECURSIVE AssistantBlocks(_, _, _, _, _, _)
AssistantBlocks(st, blocks, entry, session_id, is_subagent, line_num) ==
    IF Len(blocks) = 0 THEN st
    ELSE AssistantBlocks(AssistantBlock(st, Head(blocks), entry, session_id,
                                        is_subagent, line_num),
                         Tail(blocks), entry, session_id, is_subagent, line_num)

\* a user entry whose toolUseResult is a string starting with "Error: "
ErrorString(st, entry) ==
    LET results == {k \in 1..Len(entry.content) :
                       entry.content[k].type = "tool_result"}
        id == IF results = {} THEN None
              ELSE entry.content[CHOOSE k \in results :
                                    \A j \in results : k <= j].tool_use_id
        m == PendingAt(st.pending, id)
    IN  IF TextTruthy(id) /\ m > 0
        THEN [st EXCEPT !.ops[m].is_error = TRUE,
                        !.ops[m].error_message = Tail(entry.toolUseResult.text)]
        ELSE st

\* mutant: a result sets the content of a Read that already has content
ToolResultBlockOverwriting(st, block) ==
    LET m == PendingAt(st.pending, block.tool_use_id)
    IN  IF block.type # "tool_result" THEN st
        ELSE IF ~(TextTruthy(block.tool_use_id) /\ m > 0) THEN st
        ELSE IF block.is_error
        THEN [st EXCEPT !.ops[m].is_error = TRUE,
                        !.ops[m].error_message = ErrorMessage(block.content)]
        ELSE IF st.ops[m].type = READ
        THEN [st EXCEPT !.ops[m].content =
                 IF Contains(block.content, <<Arrow>>)
                 THEN StripReadLineNumbers(block.content)
                 ELSE block.content]
        ELSE st

\* one tool_result block of a user entry
ToolResultBlock(st, block) ==
    LET m == PendingAt(st.pending, block.tool_use_id)
    IN  IF block.type # "tool_result" THEN st
        ELSE IF ~(TextTruthy(block.tool_use_id) /\ m > 0) THEN st
        ELSE IF block.is_error
        THEN [st EXCEPT !.ops[m].is_error = TRUE,
                        !.ops[m].error_message = ErrorMessage(block.content)]
        ELSE IF st.ops[m].type = READ /\ st.ops[m].content = None
        THEN [st EXCEPT !.ops[m].content =
                 IF Contains(block.content, <<Arrow>>)
                 THEN StripReadLineNumbers(block.content)
                 ELSE block.content]
        ELSE st

RECURSIVE ToolResultBlocks(_, _)
ToolResultBlocks(st, blocks) ==
    IF Len(blocks) = 0 THEN st
    ELSE ToolResultBlocks(ToolResultBlock(st, Head(blocks)), Tail(blocks))

\* the branch of scan_session for a user entry
UserEntry(st, entry) ==
    LET enriched ==
            IF entry.toolUseResult.kind = "dict"
            THEN [st EXCEPT !.ops = EnrichFromToolUseResult(st.ops, st.pending,
                                                            entry.toolUseResult)]
            ELSE st
        is_error_string ==
            /\ entry.toolUseResult.kind = "str"
            /\ Len(entry.toolUseResult.text) > 0
            /\ entry.toolUseResult.text[1] = "Error: "
    IN  IF entry.message = "not_object" THEN [enriched EXCEPT !.raised = TRUE]
        ELSE ToolResultBlocks(IF is_error_string
                              THEN ErrorString(enriched, entry) ELSE enriched,
                              entry.content)

\* one tracked backup of a file-history-snapshot entry
TrackedBackup(st, rel_path, info, entry, session_id, line_num) ==
    LET abs_path == IF TextTruthy(st.cwd) /\ ~IsAbs(rel_path)
                    THEN NormPath(OsPathJoin(st.cwd, rel_path))
                    ELSE rel_path
    IN  IF ~TextTruthy(info.backupFileName) THEN st
        ELSE IF info.disk = None THEN st
        ELSE [st EXCEPT !.ops = Append(@,
                [FileOperation(FILE_HISTORY, abs_path,
                               IF info.backupTime # NoInt THEN info.backupTime
                               ELSE entry.timestamp,
                               session_id)
                    EXCEPT !.content = info.disk, !.line_number = line_num])]

RECURSIVE TrackedBackups(_, _, _, _, _)
TrackedBackups(st, tracked, entry, session_id, line_num) ==
    IF Len(tracked) = 0 THEN st
    ELSE TrackedBackups(TrackedBackup(st, Head(tracked).rel_path, Head(tracked),
                                      entry, session_id, line_num),
                        Tail(tracked), entry, session_id, line_num)

\* one iteration of the loop over the lines of the transcript
ScanLine(st, line, session_id, is_subagent, line_num, has_backup_dir) ==
    IF line.shape \in {"progress", "undecodable"} THEN st
    ELSE IF line.shape # "object" THEN [st EXCEPT !.raised = TRUE]
    ELSE LET tracking == IF st.cwd = None /\ TextTruthy(line.cwd)
                         THEN [st EXCEPT !.cwd = line.cwd] ELSE st
         IN  IF line.type = "assistant"
             THEN IF line.message = "not_object"
                  THEN [tracking EXCEPT !.raised = TRUE]
                  ELSE AssistantBlocks(tracking, line.content, line, session_id,
                                       is_subagent, line_num)
             ELSE IF line.type = "user" THEN UserEntry(tracking, line)
             ELSE IF line.type = "file-history-snapshot" /\ has_backup_dir
             THEN TrackedBackups(tracking, line.tracked, line, session_id,
                                 line_num)
             ELSE tracking

\* the loop: an exception ends it
RECURSIVE ScanLinesFrom(_, _, _, _, _, _)
ScanLinesFrom(st, lines, session_id, is_subagent, line_num, has_backup_dir) ==
    IF st.raised \/ line_num > Len(lines) THEN st
    ELSE ScanLinesFrom(ScanLine(st, lines[line_num], session_id, is_subagent,
                                line_num, has_backup_dir),
                       lines, session_id, is_subagent, line_num + 1,
                       has_backup_dir)

\* scan_session(path, backup_dir) on the lines of the file at path: whether it
\* raised and, if not, the list it returns
ScanSessionLines(path, lines, has_backup_dir) ==
    LET st == ScanLinesFrom([ops |-> <<>>, pending |-> <<>>, cwd |-> None,
                             raised |-> FALSE],
                            lines, ExtractSessionId(path), IsSubagentFile(path),
                            1, has_backup_dir)
    IN  IF st.raised THEN [raised |-> TRUE, ops |-> <<>>]
        ELSE [raised |-> FALSE,
              ops |-> SelectSeq(st.ops, LAMBDA op : ~IsNoopEdit(op))]

(***************************************************************************)
(* core/symlinks/merge.py                                                  *)
(*                                                                         *)
(* A symlink group is [canonical, aliases]; file paths are text.           *)
(***************************************************************************)
\* the inner loop building alias_to_canonical, for one group
RECURSIVE AddAliases(_, _, _)
AddAliases(d, aliases, canonical) ==
    IF Len(aliases) = 0 THEN d
    ELSE AddAliases(DictSet(d, Head(aliases), canonical), Tail(aliases), canonical)

\* the loop building alias_to_canonical
RECURSIVE AliasToCanonical(_, _)
AliasToCanonical(d, groups) ==
    IF Len(groups) = 0 THEN d
    ELSE AliasToCanonical(AddAliases(d, Head(groups).aliases,
                                     Head(groups).canonical),
                          Tail(groups))

\* insert a pair behind every pair whose alias is at least as long
RECURSIVE InsertByLen(_, _)
InsertByLen(sorted, pair) ==
    IF Len(sorted) = 0 THEN <<pair>>
    ELSE IF Len(pair[1]) > Len(Head(sorted)[1]) THEN <<pair>> \o sorted
    ELSE <<Head(sorted)>> \o InsertByLen(Tail(sorted), pair)

\* mutant: the aliases stay in the order the groups list them
AliasesAsListed(d) == d

\* sorted(alias_to_canonical.keys(), key=len, reverse=True), each alias with its
\* canonical prefix (the sort is stable)
RECURSIVE SortedAliases(_)
SortedAliases(d) ==
    IF Len(d) = 0 THEN <<>>
    ELSE InsertByLen(SortedAliases(SubSeq(d, 1, Len(d) - 1)), d[Len(d)])

\* resolve_path: <<canonical_path, original_alias_path_or_None>>
RECURSIVE ResolvePath(_, _)
ResolvePath(sorted_aliases, path) ==
    IF Len(sorted_aliases) = 0 THEN <<path, None>>
    ELSE LET alias == Head(sorted_aliases)[1]
             canonical_prefix == Head(sorted_aliases)[2]
         IN  IF path = alias \/ MatchAt(path, alias \o <<"/">>, 0)
             THEN <<canonical_prefix \o Slice(path, Len(alias), Len(path)), path>>
             ELSE ResolvePath(Tail(sorted_aliases), path)

\* mutant: source_path is set on a copy, the shared operation is left alone
KeepSourcePath(h, ids, original_path) == h

\* the inner loop of merge_file_index on the operation objects:
\* op.source_path = original_path for every operation of an aliased timeline
SetSourcePath(h, ids, original_path) ==
    IF original_path = None THEN h
    ELSE [id \in DOMAIN h |->
            IF \E k \in 1..Len(ids) : ids[k] = id
            THEN [h[id] EXCEPT !.source_path = original_path]
            ELSE h[id]]

\* mutant: an entry that exists is overwritten by the timeline folded into it
ReplaceEntry(index, path, ids) ==
    IF HasPath(index, path)
    THEN [k \in 1..Len(index) |->
            IF index[k].path = path
            THEN [index[k] EXCEPT !.operations = ids]
            ELSE index[k]]
    ELSE Append(index, [path |-> path, operations |-> ids])

\* target.operations.append(op) for every operation of one raw timeline
ExtendEntry(index, path, ids) ==
    IF HasPath(index, path)
    THEN [k \in 1..Len(index) |->
            IF index[k].path = path
            THEN [index[k] EXCEPT !.operations = @ \o ids]
            ELSE index[k]]
    ELSE Append(index, [path |-> path, operations |-> ids])

\* the loop over file_index.items(): the new index and the heap it leaves
RECURSIVE MergeLoop(_, _, _, _)
MergeLoop(h, new_index, entries, sorted_aliases) ==
    IF Len(entries) = 0 THEN [index |-> new_index, heap |-> h]
    ELSE LET rf == Head(entries)
             resolved == ResolvePath(sorted_aliases, rf.path)
         IN  MergeLoop(SetSourcePath(h, rf.operations, resolved[2]),
                       ExtendEntry(new_index, resolved[1], rf.operations),
                       Tail(entries), sorted_aliases)

\* merge_file_index(file_index, groups): [index, heap]
MergeFileIndex(h, index, groups) ==
    LET sorted_aliases == SortedAliases(AliasToCanonical(<<>>, groups))
        merged == MergeLoop(h, <<>>, index, sorted_aliases)
    IN  [index |-> [k \in 1..Len(merged.index) |->
                      [merged.index[k] EXCEPT !.operations =
                          SortOps(merged.heap, @)]],
         heap |-> merged.heap]

(***************************************************************************)
(* core/filters.py                                                         *)
(***************************************************************************)
\* mutant: the operations at the cutoff itself are dropped
FilterStrictlyBefore(h, index, before_ts) ==
    IF before_ts = NoInt THEN index
    ELSE LET trimmed ==
                 [k \in 1..Len(index) |->
                    [path |-> index[k].path,
                     operations |->
                        SelectSeq(index[k].operations,
                                  LAMBDA id : h[id].timestamp < before_ts)]]
         IN  SelectSeq(trimmed, LAMBDA rf : Len(rf.operations) > 0)

\* filter_by_timestamp(files, before_ts); the empty cutoff "" is NoInt
FilterByTimestamp(h, index, before_ts) ==
    IF before_ts = NoInt THEN index
    ELSE LET trimmed ==
                 [k \in 1..Len(index) |->
                    [path |-> index[k].path,
                     operations |->
                        SelectSeq(index[k].operations,
                                  LAMBDA id : h[id].timestamp <= before_ts)]]
         IN  SelectSeq(trimmed, LAMBDA rf : Len(rf.operations) > 0)

(***************************************************************************)
(* core/injection.py                                                       *)
(***************************************************************************)
IsBlank(line) == Len(Strip(line)) = 0

\* the first walk of _extract_trailing_block: the last non-blank line at or
\* before `end` (1-based), 0 when there is none
RECURSIVE LastNonBlank(_, _)
LastNonBlank(lines, end) ==
    IF end >= 1 /\ IsBlank(lines[end]) THEN LastNonBlank(lines, end - 1)
    ELSE end

\* the second walk: the first line of the block that ends at `start`
RECURSIVE BlockStart(_, _)
BlockStart(lines, start) ==
    IF start > 1 /\ ~IsBlank(lines[start - 1]) THEN BlockStart(lines, start - 1)
    ELSE start

\* _extract_trailing_block(content), content a str
ExtractTrailingBlock(content) ==
    LET lines == SplitLines(RStrip(content))
        end == LastNonBlank(lines, Len(lines))
        start == BlockStart(lines, end)
    IN  IF end < 1 THEN None
        ELSE IF start = 1 THEN None
        ELSE IF ~IsBlank(lines[start - 1]) THEN None
        ELSE Strip(JoinLines(SubSeq(lines, start, end)))

\* mutant: what is left is trimmed at both ends
StripOpBothEnds(op, pattern_strings) ==
    IF op.type # READ \/ op.content = None \/ Len(op.content) = 0 THEN op
    ELSE LET trailing == ExtractTrailingBlock(op.content)
             idx == RFind(op.content, trailing)
         IN  IF trailing = None \/ Len(trailing) = 0
                \/ trailing \notin pattern_strings
             THEN op
             ELSE IF idx >= 0
             THEN [op EXCEPT !.content = Strip(Slice(op.content, 0, idx))]
             ELSE op

\* mutant: the content is cut at the first occurrence of the block
StripOpFirstOccurrence(op, pattern_strings) ==
    IF op.type # READ \/ op.content = None \/ Len(op.content) = 0 THEN op
    ELSE LET trailing == ExtractTrailingBlock(op.content)
             idx == Find(op.content, trailing, 0)
         IN  IF trailing = None \/ Len(trailing) = 0
                \/ trailing \notin pattern_strings
             THEN op
             ELSE IF idx >= 0
             THEN [op EXCEPT !.content = RStrip(Slice(op.content, 0, idx))]
             ELSE op

\* the body of the loops of strip_injected_content, for one operation
StripOp(op, pattern_strings) ==
    IF op.type # READ \/ op.content = None \/ Len(op.content) = 0 THEN op
    ELSE LET trailing == ExtractTrailingBlock(op.content)
             idx == RFind(op.content, trailing)
         IN  IF trailing = None \/ Len(trailing) = 0
                \/ trailing \notin pattern_strings
             THEN op
             ELSE IF idx >= 0
             THEN [op EXCEPT !.content = RStrip(Slice(op.content, 0, idx))]
             ELSE op

\* the objects of an index in the order strip_injected_content visits them
RECURSIVE Visited(_)
Visited(index) ==
    IF Len(index) = 0 THEN <<>>
    ELSE Head(index).operations \o Visited(Tail(index))

\* strip_injected_content(files, patterns) over the visited objects:
\* [heap, modified]
RECURSIVE StripLoop(_, _, _, _)
StripLoop(h, ids, pattern_strings, modified) ==
    IF Len(ids) = 0 THEN [heap |-> h, modified |-> modified]
    ELSE LET id == Head(ids)
             stripped == StripOp(h[id], pattern_strings)
         IN  StripLoop([h EXCEPT ![id] = stripped], Tail(ids), pattern_strings,
                       IF stripped # h[id] THEN modified + 1 ELSE modified)

StripInjectedContent(h, index, pattern_strings) ==
    IF pattern_strings = {} THEN [heap |-> h, modified |-> 0]
    ELSE StripLoop(h, Visited(index), pattern_strings, 0)

\* Counter[key] += 1 on a Counter kept as a sequence of [key, count] in
\* insertion order
CounterAdd(counter, key) ==
    IF \E k \in 1..Len(counter) : counter[k].key = key
    THEN [k \in 1..Len(counter) |->
            IF counter[k].key = key
            THEN [counter[k] EXCEPT !.count = @ + 1] ELSE counter[k]]
    ELSE Append(counter, [key |-> key, count |-> 1])

CounterGet(counter, key) ==
    IF \E k \in 1..Len(counter) : counter[k].key = key
    THEN (CHOOSE e \in {counter[k] : k \in 1..Len(counter)} : e.key = key).count
    ELSE 0

\* the Reads of a file that detection looks at
ReadsWithContent(h, ids) ==
    SelectSeq(ids, LAMBDA id : h[id].type = READ /\ TextTruthy(h[id].content))

\* mutant: every Read counts for the file count, also a second one in the file
RECURSIVE TallyEveryRead(_, _, _, _)
TallyEveryRead(h, ids, tally, seen_in_file) ==
    IF Len(ids) = 0 THEN tally
    ELSE LET trailing == ExtractTrailingBlock(h[Head(ids)].content)
         IN  IF ~TextTruthy(trailing)
             THEN TallyEveryRead(h, Tail(ids), tally, seen_in_file)
             ELSE TallyEveryRead(h, Tail(ids),
                     [file |-> CounterAdd(tally.file, trailing),
                      op |-> CounterAdd(tally.op, trailing)],
                     seen_in_file \cup {trailing})

\* the inner loop of detect_injected_content over the Reads of one file
RECURSIVE TallyFile(_, _, _, _)
TallyFile(h, ids, tally, seen_in_file) ==
    IF Len(ids) = 0 THEN tally
    ELSE LET trailing == ExtractTrailingBlock(h[Head(ids)].content)
         IN  IF ~TextTruthy(trailing)
             THEN TallyFile(h, Tail(ids), tally, seen_in_file)
             ELSE TallyFile(h, Tail(ids),
                     [file |-> IF trailing \in seen_in_file THEN tally.file
                               ELSE CounterAdd(tally.file, trailing),
                      op |-> CounterAdd(tally.op, trailing)],
                     seen_in_file \cup {trailing})

\* the outer loop: [file, op, files_with_reads]
RECURSIVE TallyIndex(_, _, _)
TallyIndex(h, index, acc) ==
    IF Len(index) = 0 THEN acc
    ELSE LET read_ops == ReadsWithContent(h, Head(index).operations)
             tally == TallyFile(h, read_ops, [file |-> acc.file, op |-> acc.op], {})
         IN  IF Len(read_ops) = 0 THEN TallyIndex(h, Tail(index), acc)
             ELSE TallyIndex(h, Tail(index),
                             [file |-> tally.file, op |-> tally.op,
                              files_with_reads |-> acc.files_with_reads + 1])

\* Counter.most_common(): by count, highest first, equal counts in insertion
\* order
RECURSIVE InsertByCount(_, _)
InsertByCount(sorted, e) ==
    IF Len(sorted) = 0 THEN <<e>>
    ELSE IF Head(sorted).count < e.count THEN <<e>> \o sorted
    ELSE <<Head(sorted)>> \o InsertByCount(Tail(sorted), e)

RECURSIVE MostCommon(_)
MostCommon(counter) ==
    IF Len(counter) = 0 THEN <<>>
    ELSE InsertByCount(MostCommon(SubSeq(counter, 1, Len(counter) - 1)),
                       counter[Len(counter)])

\* int(files_with_reads * threshold), the threshold in hundredths
MinFiles(files_with_reads, threshold) == (files_with_reads * threshold) \div 100

\* the reporting loop: it stops at the first count below min_files
RECURSIVE Reported(_, _, _, _)
Reported(common, op_count, min_files, idx) ==
    IF idx > Len(common) THEN <<>>
    ELSE IF common[idx].count < min_files THEN <<>>
    ELSE <<[pattern_id |-> idx,
            content |-> common[idx].key,
            affected_op_count |-> CounterGet(op_count, common[idx].key),
            affected_file_count |-> common[idx].count]>>
         \o Reported(common, op_count, min_files, idx + 1)

\* detect_injected_content(files, threshold)
DetectInjectedContent(h, index, threshold) ==
    LET tally == TallyIndex(h, index,
                            [file |-> <<>>, op |-> <<>>, files_with_reads |-> 0])
    IN  IF tally.files_with_reads = 0 THEN <<>>
        ELSE Reported(MostCommon(tally.file), tally.op,
                      MinFiles(tally.files_with_reads, threshold), 1)

(***************************************************************************)
(* Replay queries on one timeline                                          *)
(*                                                                         *)
(* The timeline is drawn from a universe of operations that covers every   *)
(* branch of the replay loop; its timestamps stand for the fixed-width     *)
(* ISO-8601 strings, whose lexicographic order is the numeric order.       *)
(***************************************************************************)
MaxOps == 2           \* operations in a replayed timeline
MaxTimedOps == 3      \* operations in a timeline of the time-travel runs
MaxTs == 3            \* timestamps 1..MaxTs, cutoffs 0..MaxTs

\* /t is a symlink to /r and /t/s one to /u
DirT == <<"/", "t">>
DirR == <<"/", "r">>
DirTS == <<"/", "t", "/", "s">>
DirU == <<"/", "u">>
PathP == DirT \o <<"/", "a">>
PathQ == DirR \o <<"/", "a">>
Sid1 == <<"s1">>

T_a == <<"a">>
T_b == <<"b">>
T_c == <<"c">>
T_aba == <<"a", "b", "a">>
T_a_b == <<"a", LF, "b">>

Blank(type) == FileOperation(type, PathP, 0, Sid1)

WriteOps ==
    {[Blank(WRITE_CREATE) EXCEPT !.content = c] : c \in {None, <<>>, T_aba}}
    \cup {[Blank(WRITE_UPDATE) EXCEPT !.content = T_a_b, !.original_file = T_a]}

FileHistoryOps ==
    {[Blank(FILE_HISTORY) EXCEPT !.content = c] : c \in {None, T_b}}

EditParams ==
    {<<T_a, T_b, FALSE>>, <<T_a, T_b, TRUE>>, <<None, T_b, FALSE>>,
     <<T_a, None, FALSE>>, <<<<>>, T_b, FALSE>>, <<T_c, T_b, FALSE>>}

EditOps ==
    {[Blank(EDIT) EXCEPT !.original_file = o, !.old_string = e[1],
                         !.new_string = e[2], !.replace_all = e[3]] :
        o \in {None, T_aba}, e \in EditParams}

\* <<read_offset, read_limit, read_start_line, read_num_lines, read_total_lines>>
ReadWindows ==
    {<<NoInt, NoInt, NoInt, NoInt, NoInt>>,     \* full: nothing requested
     <<2, NoInt, 1, 1, 1>>,                     \* full by the response
     <<NoInt, NoInt, 2, 1, 3>>,                 \* partial by the response
     <<NoInt, NoInt, 1, 1, 2>>,                 \* partial: a proper prefix
     <<2, NoInt, NoInt, NoInt, NoInt>>,         \* partial by the request offset
     <<NoInt, 1, NoInt, NoInt, NoInt>>}         \* partial by the request limit

ReadOp(c, w) ==
    [Blank(READ) EXCEPT !.content = c, !.read_offset = w[1], !.read_limit = w[2],
                        !.read_start_line = w[3], !.read_num_lines = w[4],
                        !.read_total_lines = w[5]]

ReadOps ==
    {ReadOp(T_b, w) : w \in ReadWindows}
    \cup {ReadOp(None, <<NoInt, NoInt, NoInt, NoInt, NoInt>>),
          ReadOp(None, <<NoInt, NoInt, 2, 1, 3>>)}

\* operations whose tool result was an error
ErroredOps ==
    {[o EXCEPT !.is_error = TRUE] : o \in
        {[Blank(WRITE_CREATE) EXCEPT !.content = T_aba],
         [Blank(FILE_HISTORY) EXCEPT !.content = T_b],
         [Blank(EDIT) EXCEPT !.old_string = T_a, !.new_string = T_c],
         [Blank(EDIT) EXCEPT !.original_file = T_aba, !.old_string = T_a,
                             !.new_string = T_b, !.replace_all = TRUE],
         ReadOp(None, <<NoInt, NoInt, NoInt, NoInt, NoInt>>),
         ReadOp(T_b, <<NoInt, NoInt, NoInt, NoInt, NoInt>>),
         ReadOp(T_b, <<NoInt, NoInt, 2, 1, 3>>)}}

OpUniverse == WriteOps \cup FileHistoryOps \cup EditOps \cup ReadOps \cup ErroredOps

\* the k-th operation of a timeline at timestamp ts[k] and line k
Stamped(f, ts) ==
    [k \in 1..Len(f) |-> [f[k] EXCEPT !.timestamp = ts[k], !.line_number = k]]

\* operations of the time-travel runs: each leaves a different content
TimedOps ==
    {[Blank(WRITE_CREATE) EXCEPT !.content = T_a],
     [Blank(WRITE_UPDATE) EXCEPT !.content = T_aba],
     [Blank(EDIT) EXCEPT !.old_string = T_a, !.new_string = T_c],
     ReadOp(T_b, <<NoInt, NoInt, 2, 1, 3>>)}

NonDecreasing(ts) == \A k \in 1..(Len(ts) - 1) : ts[k] <= ts[k + 1]

NoCall == [fn |-> "none", arg |-> 0]

PipelineIdle ==
    /\ heap = <<>>
    /\ jsonl_files = <<>>
    /\ futures = {}
    /\ all_ops = <<>>
    /\ completed = 0
    /\ raw_file_index = <<>>
    /\ file_index = <<>>
    /\ pc = "query"

pipelineVars == <<heap, jsonl_files, futures, all_ops, completed,
                  raw_file_index, file_index, pc>>

InitReplay ==
    /\ \E len \in 0..MaxOps : \E f \in [1..len -> OpUniverse] :
          operations = Stamped(f, [k \in 1..len |-> k])
    /\ call = NoCall
    /\ result = None
    /\ PipelineIdle

InitTime ==
    /\ \E len \in 0..MaxTimedOps : \E f \in [1..len -> TimedOps] :
          \E ts \in [1..len -> 1..MaxTs] :
              /\ NonDecreasing(ts)
              /\ operations = Stamped(f, ts)
    /\ call = NoCall
    /\ result = None
    /\ PipelineIdle

\* Each behaviour makes one query on its timeline (the queries are pure).
\* A caller asks for the content at index i (diff.py asks for i - 1 too)
CallReconstructFileAt ==
    /\ pc = "query" /\ call = NoCall
    /\ \E i \in -1..(Len(operations) - 1) :
        /\ call' = [fn |-> "reconstruct_file_at", arg |-> i]
        /\ result' = ReconstructFileAt(operations, i)
    /\ UNCHANGED <<operations, pipelineVars>>

CallReconstructLatest ==
    /\ pc = "query" /\ call = NoCall
    /\ call' = [fn |-> "reconstruct_latest", arg |-> 0]
    /\ result' = ReconstructLatest(operations)
    /\ UNCHANGED <<operations, pipelineVars>>

CallReconstructAtTimestamp ==
    /\ pc = "query" /\ call = NoCall
    /\ \E c \in 0..MaxTs :
        /\ call' = [fn |-> "reconstruct_at_timestamp", arg |-> c]
        /\ result' = ReconstructAtTimestamp(operations, c)
    /\ UNCHANGED <<operations, pipelineVars>>

NextReplay ==
    \/ CallReconstructFileAt
    \/ CallReconstructLatest
    \/ CallReconstructAtTimestamp

SpecReplay == InitReplay /\ [][NextReplay]_vars

SpecTime == InitTime /\ [][NextReplay]_vars


\* rf.has_full_content read by a caller
CallHasFullContent ==
    /\ pc = "query" /\ call = NoCall
    /\ call' = [fn |-> "has_full_content", arg |-> 0]
    /\ result' = HasFullContent(operations)
    /\ UNCHANGED <<operations, pipelineVars>>

SpecFull == InitReplay /\ [][CallHasFullContent]_vars

(***************************************************************************)
(* Replay queries on a timeline of partial Reads                           *)
(***************************************************************************)
MaxReads == 2         \* Reads in a timeline of partial Reads

T_AB == <<"A", LF, "B">>
T_CD == <<"C", LF, "D">>

\* windows of a five-line file and one whose response has no total
PartialWindows ==
    {<<NoInt, NoInt, 3, 2, 5>>, <<3, 2, 3, 2, 5>>,
     <<NoInt, NoInt, 1, 2, 5>>, <<NoInt, 2, 1, 2, 5>>,
     <<NoInt, NoInt, 4, 2, 5>>, <<NoInt, NoInt, 3, 2, NoInt>>}

PartialReads ==
    {ReadOp(c, w) : c \in {T_AB, T_CD, <<"E">>}, w \in PartialWindows}

InitPartial ==
    /\ \E len \in 0..MaxReads : \E f \in [1..len -> PartialReads] :
          operations = Stamped(f, [k \in 1..len |-> k])
    /\ call = NoCall
    /\ result = None
    /\ PipelineIdle

SpecPartial == InitPartial /\ [][NextReplay]_vars

(***************************************************************************)
(* splice_read called on its own, then again on what it returned           *)
(***************************************************************************)
MaxSpliceLen == 3     \* characters in the baseline of a splice
MaxLine == 3          \* start_line and total_lines of a splice: 0..MaxLine

\* texts of up to n characters over an alphabet
TextsOver(alphabet, n) == UNION {[1..k -> alphabet] : k \in 0..n}

InitSplice ==
    /\ \E existing \in {None} \cup TextsOver({"a", LF}, MaxSpliceLen) :
       \E new_content \in TextsOver({"b", LF}, 2) :
       \E start_line \in {NoInt} \cup 0..MaxLine :
       \E total_lines \in {NoInt} \cup 0..MaxLine :
       \E num_lines \in {NoInt, Len(SplitLines(new_content))} :
          call = [fn |-> "splice_read",
                  arg |-> [existing |-> existing, new_content |-> new_content,
                           start_line |-> start_line, num_lines |-> num_lines,
                           total_lines |-> total_lines]]
    /\ operations = <<>>
    /\ result = None
    /\ heap = <<>>
    /\ jsonl_files = <<>>
    /\ futures = {}
    /\ all_ops = <<>>
    /\ completed = 0
    /\ raw_file_index = <<>>
    /\ file_index = <<>>
    /\ pc = "splice"

\* content = splice_read(existing, new_content, start_line, num_lines, total_lines)
CallSpliceRead ==
    /\ pc = "splice"
    /\ result' = SpliceRead(call.arg.existing, call.arg.new_content,
                            call.arg.start_line, call.arg.num_lines,
                            call.arg.total_lines)
    /\ pc' = "spliced"
    /\ UNCHANGED <<operations, call, heap, jsonl_files, futures, all_ops,
                   completed, raw_file_index, file_index>>

\* the same Read replayed next: content = splice_read(content, ...)
CallSpliceReadAgain ==
    /\ pc = "spliced"
    /\ result' = SpliceRead(result, call.arg.new_content,
                            call.arg.start_line, call.arg.num_lines,
                            call.arg.total_lines)
    /\ pc' = "respliced"
    /\ UNCHANGED <<operations, call, heap, jsonl_files, futures, all_ops,
                   completed, raw_file_index, file_index>>

NextSplice == CallSpliceRead \/ CallSpliceReadAgain

SpecSplice == InitSplice /\ [][NextSplice]_vars

(***************************************************************************)
(* apply_edit called on its own                                            *)
(***************************************************************************)
MaxEditLen == 4       \* characters in the content handed to apply_edit

InitEdit ==
    /\ \E content \in TextsOver({"a", "b"}, MaxEditLen) :
       \E old_string \in TextsOver({"a", "b"}, 2) :
       \E new_string \in {<<>>, T_a, T_c, <<"a", "b">>} :
       \E replace_all \in BOOLEAN :
          call = [fn |-> "apply_edit",
                  arg |-> [content |-> content, old_string |-> old_string,
                           new_string |-> new_string,
                           replace_all |-> replace_all]]
    /\ operations = <<>>
    /\ result = None
    /\ heap = <<>>
    /\ jsonl_files = <<>>
    /\ futures = {}
    /\ all_ops = <<>>
    /\ completed = 0
    /\ raw_file_index = <<>>
    /\ file_index = <<>>
    /\ pc = "edit"

\* content = apply_edit(content, old_string, new_string, replace_all)
CallApplyEdit ==
    /\ pc = "edit"
    /\ result' = ApplyEdit(call.arg.content, call.arg.old_string,
                           call.arg.new_string, call.arg.replace_all)
    /\ pc' = "edited"
    /\ UNCHANGED <<operations, call, heap, jsonl_files, futures, all_ops,
                   completed, raw_file_index, file_index>>

SpecEdit == InitEdit /\ [][CallApplyEdit]_vars

(***************************************************************************)
(* Replay properties                                                       *)
(***************************************************************************)
\* the operation a reconstruct_file_at query stopped at
AtQuery == call.fn = "reconstruct_file_at" /\ call.arg >= 0
QueriedOp == operations[call.arg + 1]

\* C1: an errored operation, whatever its kind and payload, leaves the
\* reconstructed content as it was: reconstruct_at(T, i) = reconstruct_at(T, i-1)
\* whenever T[i].is_error (absent when i = 0).
C1_ErroredOpLeavesContent ==
    (AtQuery /\ QueriedOp.is_error)
        => result = ReconstructFileAt(operations, call.arg - 1)

\* C2: a non-errored Edit with original_file, old_string and new_string present
\* rebases: reconstruct_at(T, i) is apply_edit(original_file, old, new,
\* replace_all), whatever precedes it.
C2_EditRebase ==
    (/\ AtQuery
     /\ QueriedOp.type = EDIT
     /\ ~QueriedOp.is_error
     /\ QueriedOp.original_file # None
     /\ QueriedOp.old_string # None
     /\ QueriedOp.new_string # None)
        => result = ApplyEdit(QueriedOp.original_file, QueriedOp.old_string,
                              QueriedOp.new_string, QueriedOp.replace_all)

\* C2 witness: the Edit follows an operation that left another content than its
\* original_file, and the query returned the rebased, edited text
C2_Witness ==
    /\ AtQuery /\ call.arg >= 1
    /\ QueriedOp.type = EDIT /\ ~QueriedOp.is_error
    /\ QueriedOp.original_file # None
    /\ QueriedOp.old_string = T_a /\ QueriedOp.new_string = T_b
    /\ ReconstructFileAt(operations, call.arg - 1)
         \notin {None, QueriedOp.original_file}
    /\ result # QueriedOp.original_file

\* a full Read in the words of the replay rule: the response says start_line = 1
\* and num_lines = total_lines, or there is no response metadata and neither
\* read_offset nor read_limit was requested
FullReadByRule(op) ==
    /\ op.type = READ
    /\ \/ op.read_start_line = 1 /\ op.read_num_lines = op.read_total_lines
       \/ /\ op.read_start_line = NoInt
          /\ op.read_num_lines = NoInt
          /\ op.read_total_lines = NoInt
          /\ op.read_offset = NoInt
          /\ op.read_limit = NoInt

AtOrBefore(ops, c) == {j \in 1..Len(ops) : ops[j].timestamp <= c}
Largest(S) == CHOOSE j \in S : \A k \in S : k <= j

\* C4: on a timeline sorted by timestamp, reconstruct_at_timestamp(T, c) is
\* reconstruct_at(T, j) for the largest j with T[j].timestamp <= c, and absent
\* when every operation is after c.
C4_TimeTravel ==
    call.fn = "reconstruct_at_timestamp"
        => LET J == AtOrBefore(operations, call.arg)
           IN  result = IF J = {} THEN None
                        ELSE ReconstructFileAt(operations, Largest(J) - 1)

\* C4 witness: three operations, the cutoff equal to the timestamp of two of them
\* and before the third, and the content returned is not the latest one
C4_Witness ==
    /\ call.fn = "reconstruct_at_timestamp"
    /\ Len(operations) = 3
    /\ Cardinality(AtOrBefore(operations, call.arg)) = 2
    /\ operations[1].timestamp < operations[2].timestamp
    /\ operations[2].timestamp = call.arg
    /\ result # None
    /\ result # ReconstructLatest(operations)
    /\ result # ReconstructFileAt(operations, 0)


\* C11: splice is idempotent: for every baseline, partial Read content,
\* start_line and total_lines, splicing the same Read into the content it
\* already produced gives that content again.
C11_SpliceIdempotent ==
    [][(pc = "spliced" /\ pc' = "respliced") => result' = result]_vars

\* C11 where the window starts inside the lines the content has after the first
\* splice (start_line - 1 <= total_lines, or no total_lines)
C11_SpliceIdempotentInRange ==
    [][(/\ pc = "spliced" /\ pc' = "respliced"
        /\ \/ call.arg.total_lines \in {NoInt, 0}
           \/ IntOr(call.arg.start_line, 1) - 1 <= call.arg.total_lines)
          => result' = result]_vars

\* a Read with the given response metadata and content
IsReadOf(op, start_line, num_lines, total_lines, content) ==
    /\ op.type = READ /\ ~op.is_error
    /\ op.read_start_line = start_line
    /\ op.read_num_lines = num_lines
    /\ op.read_total_lines = total_lines
    /\ op.content = content

\* the timeline of the scenario: lines 3-4 of 5 read first, then lines 1-2
PartialReadScenario ==
    /\ call.fn = "reconstruct_latest"
    /\ Len(operations) = 2
    /\ IsReadOf(operations[1], 3, 2, 5, T_CD)
    /\ IsReadOf(operations[2], 1, 2, 5, T_AB)

\* C12 as stated: from an absent baseline, Read(start_line 3, num_lines 2,
\* total_lines 5, "C\nD") then Read(start_line 1, num_lines 2, total_lines 5,
\* "A\nB") gives reconstruct_latest = "A\nB\n\nC\nD".
C12_PartialReadsAsStated ==
    PartialReadScenario => result = <<"A", LF, "B", LF, LF, "C", LF, "D">>

\* C12 amended: the same replay gives the five lines A, B, C, D and an empty
\* fifth line: "A\nB\nC\nD\n".
C12_PartialReads ==
    PartialReadScenario => result = <<"A", LF, "B", LF, "C", LF, "D", LF>>

\* C12 witness: the scenario's timeline queried, all five lines in the result
C12_Witness ==
    /\ PartialReadScenario
    /\ operations[1].read_offset = NoInt
    /\ Len(SplitLines(result)) = 5

\* the occurrences of old in c, left to right without overlap, from offset i
RECURSIVE OccurrencesFrom(_, _, _)
OccurrencesFrom(c, old, i) ==
    IF i + Len(old) > Len(c) THEN <<>>
    ELSE IF MatchAt(c, old, i)
         THEN <<i>> \o OccurrencesFrom(c, old, i + Len(old))
         ELSE OccurrencesFrom(c, old, i + 1)

\* c with the listed occurrences of old (ascending, k-th first) each replaced
RECURSIVE WithReplaced(_, _, _, _, _)
WithReplaced(c, old, new, at, k) ==
    IF k > Len(at) THEN c
    ELSE LET rest == WithReplaced(c, old, new, at, k + 1)
         IN  SubSeq(rest, 1, at[k]) \o new
             \o SubSeq(rest, at[k] + Len(old) + 1, Len(rest))

Shares(x, y) == \E i \in 1..Len(x) : \E j \in 1..Len(y) : x[i] = y[j]

\* C13: apply_edit with replace_all = false replaces exactly the first
\* occurrence of old, with replace_all = true every occurrence; with empty old,
\* or when old does not occur in c, it returns c unchanged.
C13_ApplyEdit ==
    pc = "edited" =>
        LET c == call.arg.content
            old == call.arg.old_string
            new == call.arg.new_string
            at == OccurrencesFrom(c, old, 0)
        IN  /\ Len(old) = 0 => result = c
            /\ (Len(old) > 0 /\ Len(at) = 0) => result = c
            /\ (Len(old) > 0 /\ Len(at) > 0 /\ ~call.arg.replace_all)
                 => /\ result = SubSeq(c, 1, at[1]) \o new
                               \o SubSeq(c, at[1] + Len(old) + 1, Len(c))
                    /\ Len(result) = Len(c) + Len(new) - Len(old)
            /\ (Len(old) > 0 /\ call.arg.replace_all)
                 => /\ result = WithReplaced(c, old, new, at, 1)
                    /\ Len(result) = Len(c) + Len(at) * (Len(new) - Len(old))
                    /\ (Len(new) > 0 /\ ~Shares(new, old))
                         => ~Contains(result, old)

\* C13 witness: "abab" with old "ab", new "c", first occurrence only: "cab"
C13_Witness ==
    /\ pc = "edited"
    /\ call.arg.content = <<"a", "b", "a", "b">>
    /\ call.arg.old_string = <<"a", "b">>
    /\ ~call.arg.replace_all
    /\ result = <<"c", "a", "b">>

\* C14: has_full_content of a timeline is true if and only if the timeline
\* holds a WriteCreate, a WriteUpdate, a FileHistory operation, or a Read that is
\* full under the replay rule.
C14_HasFullContent ==
    call.fn = "has_full_content"
        => (result = TRUE <=>
              \E k \in 1..Len(operations) :
                  \/ operations[k].type \in {WRITE_CREATE, WRITE_UPDATE, FILE_HISTORY}
                  \/ operations[k].type = READ /\ IsFullRead(operations[k]))

\* C14 on the timelines whose Reads carry no response metadata, where the
\* replay rule looks at the request alone
C14_HasFullContentByRequest ==
    (/\ call.fn = "has_full_content"
     /\ \A k \in 1..Len(operations) : operations[k].read_start_line = NoInt)
        => (result = TRUE <=>
              \E k \in 1..Len(operations) :
                  \/ operations[k].type \in {WRITE_CREATE, WRITE_UPDATE, FILE_HISTORY}
                  \/ operations[k].type = READ /\ IsFullRead(operations[k]))

(***************************************************************************)
(* The scan and what the command line does with its index                  *)
(*                                                                         *)
(* scan_all_sessions submits every discovered transcript to the pool and   *)
(* takes the results as they complete; extract-files then merges symlink   *)
(* aliases and trims to a cutoff.                                          *)
(***************************************************************************)
MaxScanOps == 3       \* operations over all transcripts of a scan


MainS1 == <<<<"projects">>, <<"slug">>, <<"s1", ".jsonl">>>>
BackupS1 == <<<<"projects">>, <<"slug">>, <<"s1", ".jsonl", ".backup.1">>>>
SubagentS1 ==
    <<<<"projects">>, <<"slug">>, <<"s1">>, <<"subagents">>, <<"agent-a", ".jsonl">>>>
MainS2 == <<<<"projects">>, <<"slug">>, <<"s2", ".jsonl">>>>

\* the transcript scanned beside the main transcript of session s1
SecondTranscripts ==
    {[path |-> BackupS1, raises |-> FALSE],
     [path |-> SubagentS1, raises |-> FALSE],
     [path |-> MainS2, raises |-> FALSE],
     [path |-> MainS2, raises |-> TRUE]}

At(op, ts) == [op EXCEPT !.timestamp = ts]

\* what a transcript line can give
ScanOps ==
    {At([Blank(WRITE_CREATE) EXCEPT !.content = T_a], 1),
     At([Blank(WRITE_CREATE) EXCEPT !.content = T_b, !.file_path = PathQ], 1),
     At([Blank(EDIT) EXCEPT !.old_string = T_a, !.new_string = T_b], 1),
     At([Blank(EDIT) EXCEPT !.old_string = T_a, !.new_string = T_b], 2),
     At([Blank(EDIT) EXCEPT !.old_string = T_c, !.new_string = T_b], 2),
     At([Blank(EDIT) EXCEPT !.old_string = T_a, !.new_string = T_c,
                            !.is_error = TRUE], 1),
     At([Blank(EDIT) EXCEPT !.original_file = T_b, !.old_string = T_a,
                            !.new_string = T_b], 2),
     At(ReadOp(T_b, <<NoInt, NoInt, 1, 1, 1>>), 2),
     At([ReadOp(T_a, <<NoInt, NoInt, NoInt, NoInt, NoInt>>)
           EXCEPT !.file_path = PathQ], 2)}

\* the operation scan_session builds from line `line` of the transcript at path
Parsed(path, op, line) ==
    [op EXCEPT !.session_id = ExtractSessionId(path),
               !.is_subagent = IsSubagentFile(path),
               !.line_number = line]

ReplayIdle ==
    /\ operations = <<>>
    /\ call = NoCall
    /\ result = None

replayVars == <<operations, call, result>>

Init ==
    \E n1 \in 0..MaxScanOps : \E n2 \in 0..(MaxScanOps - n1) :
    \E f1 \in [1..n1 -> ScanOps] : \E f2 \in [1..n2 -> ScanOps] :
    \E second \in SecondTranscripts :
        /\ heap = [id \in 1..(n1 + n2) |->
                     IF id <= n1 THEN Parsed(MainS1, f1[id], id)
                     ELSE Parsed(second.path, f2[id - n1], id - n1)]
        /\ jsonl_files =
             <<[path |-> MainS1, parsed |-> [k \in 1..n1 |-> k], raises |-> FALSE],
               [path |-> second.path, parsed |-> [k \in 1..n2 |-> n1 + k],
                raises |-> second.raises]>>
        /\ futures = {1, 2}
        /\ all_ops = <<>>
        /\ completed = 0
        /\ raw_file_index = <<>>
        /\ file_index = <<>>
        /\ pc = "scan"
        /\ ReplayIdle

\* mutant: what a failing scan had collected is taken into all_ops
CompleteKeepingPartial ==
    /\ pc = "scan"
    /\ \E t \in futures :
        /\ futures' = futures \ {t}
        /\ completed' = completed + 1
        /\ all_ops' = all_ops \o ScanSession(heap, jsonl_files[t])
    /\ UNCHANGED <<heap, jsonl_files, raw_file_index, file_index, pc, replayVars>>

\* one turn of `for future in as_completed(futures)`: any transcript still out
\* may be the next to complete
Complete ==
    /\ pc = "scan"
    /\ \E t \in futures :
        /\ futures' = futures \ {t}
        /\ completed' = completed + 1
        /\ all_ops' = IF jsonl_files[t].raises THEN all_ops
                      ELSE all_ops \o ScanSession(heap, jsonl_files[t])
    /\ UNCHANGED <<heap, jsonl_files, raw_file_index, file_index, pc, replayVars>>

\* the rest of scan_all_sessions, once the pool is drained
Aggregate ==
    /\ pc = "scan"
    /\ futures = {}
    /\ raw_file_index' = Aggregated(heap, all_ops)
    /\ file_index' = raw_file_index'
    /\ pc' = "scanned"
    /\ UNCHANGED <<heap, jsonl_files, futures, all_ops, completed, replayVars>>

\* the symlink groups of a mapping file
GroupLists ==
    {<<>>,
     <<[canonical |-> DirR, aliases |-> <<DirT>>]>>,
     <<[canonical |-> DirT, aliases |-> <<DirR>>]>>,
     <<[canonical |-> DirR, aliases |-> <<DirT>>],
       [canonical |-> DirU, aliases |-> <<DirTS>>]>>,
     <<[canonical |-> DirR, aliases |-> <<DirT, DirT \o <<"x">>>>]>>}

\* files = merge_file_index(files, groups)
Merge ==
    /\ pc = "scanned"
    /\ \E groups \in GroupLists :
        LET merged == MergeFileIndex(heap, file_index, groups)
        IN  /\ file_index' = merged.index
            /\ heap' = merged.heap
    /\ pc' = "merged"
    /\ UNCHANGED <<jsonl_files, futures, all_ops, completed, raw_file_index,
                   replayVars>>

\* files = filter_by_timestamp(files, before_ts)
Trim ==
    /\ pc \in {"scanned", "merged"}
    /\ \E before_ts \in 1..2 :
        /\ file_index' = FilterByTimestamp(heap, file_index, before_ts)
        /\ call' = [fn |-> "filter_by_timestamp", arg |-> before_ts]
    /\ pc' = "trimmed"
    /\ UNCHANGED <<heap, jsonl_files, futures, all_ops, completed,
                   raw_file_index, operations, result>>

Next == Complete \/ Aggregate \/ Merge \/ Trim

Spec == Init /\ [][Next]_vars


(***************************************************************************)
(* merge_file_index on a raw index of its own                              *)
(***************************************************************************)
MaxMergeOps == 3      \* operations in the raw index handed to the merge

\* paths under the alias /t, under the nested alias /t/s, under the canonical
\* /r, the alias itself, and a path that only shares the alias's characters
MergePaths ==
    {PathP, PathQ, DirTS \o <<"/", "a">>, DirT, DirT \o <<"x">>}

\* a raw index as scan_all_sessions leaves it: grouped by path, each timeline
\* sorted, no operation seen through an alias yet
InitMerge ==
    \E n \in 0..MaxMergeOps :
    \E paths \in [1..n -> MergePaths] : \E ts \in [1..n -> 1..2] :
        /\ heap = [id \in 1..n |->
                     [Blank(WRITE_CREATE) EXCEPT !.file_path = paths[id],
                                                 !.timestamp = ts[id],
                                                 !.line_number = id,
                                                 !.content = T_a]]
        /\ raw_file_index = Aggregated(heap, [id \in 1..n |-> id])
        /\ file_index = raw_file_index
        /\ jsonl_files = <<>>
        /\ futures = {}
        /\ all_ops = [id \in 1..n |-> id]
        /\ completed = 0
        /\ pc = "scanned"
        /\ ReplayIdle

SpecMerge == InitMerge /\ [][Merge]_vars

(***************************************************************************)
(* strip_injected_content on an index of its own                           *)
(***************************************************************************)
MaxTextLen == 5       \* characters in the content of the Read under test

TextAlphabet == {"a", "b", " ", LF}

T_a__b == <<"a", LF, LF, "b">>

\* the content of the second Read
OtherContents == {None, <<>>, T_a__b, <<"b", LF, LF, "a", " ", "b">>}

\* the contents of the patterns handed to the stripper
PatternSets == {{}, {T_b}, {T_a, T_b}, {<<"a", " ", "b">>}, {<<"b", LF, "b">>}}

\* two files: a Read of any content followed by a Write, and a second Read
InitStrip ==
    \E n \in 0..MaxTextLen : \E text \in [1..n -> TextAlphabet] :
    \E other \in OtherContents :
        /\ heap = <<At(ReadOp(text, <<NoInt, NoInt, NoInt, NoInt, NoInt>>), 1),
                    At([Blank(WRITE_CREATE) EXCEPT !.content = T_a__b,
                                                   !.line_number = 1], 2),
                    At([ReadOp(other, <<NoInt, NoInt, NoInt, NoInt, NoInt>>)
                          EXCEPT !.file_path = PathQ], 1)>>
        /\ raw_file_index = <<[path |-> PathP, operations |-> <<1, 2>>],
                              [path |-> PathQ, operations |-> <<3>>]>>
        /\ file_index = raw_file_index
        /\ jsonl_files = <<>>
        /\ futures = {}
        /\ all_ops = <<1, 2, 3>>
        /\ completed = 0
        /\ pc = "scanned"
        /\ ReplayIdle

\* strip_injected_content(files, patterns); result is the count it returns
StripInjected ==
    /\ pc = "scanned"
    /\ \E pattern_strings \in PatternSets :
        LET stripped == StripInjectedContent(heap, file_index, pattern_strings)
        IN  /\ heap' = stripped.heap
            /\ result' = stripped.modified
            /\ call' = [fn |-> "strip_injected_content", arg |-> pattern_strings]
    /\ pc' = "stripped"
    /\ UNCHANGED <<operations, jsonl_files, futures, all_ops, completed,
                   raw_file_index, file_index>>

SpecStrip == InitStrip /\ [][StripInjected]_vars

(***************************************************************************)
(* detect_injected_content and the strip with what it found                *)
(***************************************************************************)
MaxFiles == 3         \* files in the index handed to the detector

T_a__a_b == <<"a", LF, LF, "a", LF, "b">>
T_b__a_b == <<"b", LF, LF, "a", LF, "b">>

WholeRead(content) == ReadOp(content, <<NoInt, NoInt, NoInt, NoInt, NoInt>>)

\* the operations of one file: a Read of some content, a Write, or two Reads
FileChoices ==
    {<<WholeRead(c)>> : c \in {None, <<>>, T_a, T_a__b, <<"b", LF, LF, "b">>,
                               <<"a", LF, LF, "a", " ", "b">>, T_a__a_b, T_b__a_b}}
    \cup {<<[Blank(WRITE_CREATE) EXCEPT !.content = T_a__b]>>,
          <<WholeRead(T_a__b), WholeRead(T_a__b)>>,
          <<WholeRead(T_a__b), WholeRead(T_a__a_b)>>,
          <<WholeRead(<<>>), WholeRead(T_b__a_b)>>}

FilePath(k) == DirT \o <<"/", <<"1", "2", "3", "4", "5", "6", "7", "8", "9">>[k]>>

\* the operation objects of the chosen files, file after file
RECURSIVE HeapOf(_, _)
HeapOf(files, k) ==
    IF k > Len(files) THEN <<>>
    ELSE [j \in 1..Len(files[k]) |->
             [files[k][j] EXCEPT !.file_path = FilePath(k), !.timestamp = k,
                                 !.line_number = j]]
         \o HeapOf(files, k + 1)

\* the index over those objects, `next` the first object of file k
RECURSIVE IndexOf(_, _, _)
IndexOf(files, k, next) ==
    IF k > Len(files) THEN <<>>
    ELSE <<[path |-> FilePath(k),
            operations |-> [j \in 1..Len(files[k]) |-> next + j - 1]]>>
         \o IndexOf(files, k + 1, next + Len(files[k]))

InitDetect ==
    /\ \E n \in 1..MaxFiles : \E files \in [1..n -> FileChoices] :
          /\ heap = HeapOf(files, 1)
          /\ raw_file_index = IndexOf(files, 1, 1)
    /\ file_index = raw_file_index
    /\ all_ops = [id \in 1..Len(heap) |-> id]
    /\ jsonl_files = <<>>
    /\ futures = {}
    /\ completed = 0
    /\ pc = "scanned"
    /\ ReplayIdle

\* patterns = detect_injected_content(files, threshold)
DetectInjected ==
    /\ pc = "scanned"
    /\ \E threshold \in {20, 70, 100} :
        /\ result' = DetectInjectedContent(heap, file_index, threshold)
        /\ call' = [fn |-> "detect_injected_content", arg |-> threshold]
    /\ pc' = "detected"
    /\ UNCHANGED <<operations, heap, jsonl_files, futures, all_ops, completed,
                   raw_file_index, file_index>>

\* strip_injected_content(files, patterns) with the patterns just detected
StripDetected ==
    /\ pc = "detected"
    /\ LET pattern_strings == {result[k].content : k \in 1..Len(result)}
           stripped == StripInjectedContent(heap, file_index, pattern_strings)
       IN  /\ heap' = stripped.heap
           /\ result' = stripped.modified
           /\ call' = [fn |-> "strip_injected_content", arg |-> pattern_strings]
    /\ pc' = "stripped"
    /\ UNCHANGED <<operations, jsonl_files, futures, all_ops, completed,
                   raw_file_index, file_index>>

NextDetect == DetectInjected \/ StripDetected

SpecDetect == InitDetect /\ [][NextDetect]_vars

(***************************************************************************)
(* scan_session on the lines of one transcript                             *)
(***************************************************************************)
MaxLines == 3         \* lines of the transcript

DirW == <<"/", "w">>

Tid1 == <<"t1">>
Tid2 == <<"t2">>
Tid3 == <<"t3">>

\* an assistant entry with one tool_use block
Assistant(timestamp, block) ==
    [Entry("assistant", timestamp) EXCEPT !.cwd = DirW, !.message = "object",
                                          !.content = <<block>>]

\* a user entry with the result of a tool
User(timestamp, res, blocks) ==
    [Entry("user", timestamp) EXCEPT !.cwd = DirW, !.message = "object",
                                     !.toolUseResult = res, !.content = blocks]

\* a file-history-snapshot entry tracking one file whose backup is on disk
Snapshot(timestamp, rel_path) ==
    [Entry("file-history-snapshot", timestamp) EXCEPT
        !.tracked = <<[rel_path |-> rel_path, backupFileName |-> <<"f1">>,
                       backupTime |-> NoInt, disk |-> T_c]>>]

TranscriptLines ==
    {Line("undecodable"), Line("progress"), Line("not_object"),
     [Entry("assistant", 1) EXCEPT !.message = "not_object"],
     Entry("assistant", 1),
     Assistant(1, ToolUse("Write", Tid1,
                          [NoInput EXCEPT !.file_path = PathP, !.content = T_a])),
     Assistant(2, ToolUse("Edit", Tid2,
                          [NoInput EXCEPT !.file_path = PathP,
                                          !.old_string = T_a, !.new_string = T_b])),
     Assistant(2, ToolUse("Read", Tid3, [NoInput EXCEPT !.file_path = PathP])),
     User(2, NoToolUseResult, <<ToolResult(Tid2, TRUE, <<"x", " ">>)>>),
     User(3, ReadResult(PathP, 1, 1, 1),
          <<ToolResult(Tid3, FALSE, <<" ", "1", Arrow, "b">>)>>),
     Snapshot(1, <<"a">>),
     Snapshot(1, <<"..", "/", "a">>),
     Snapshot(1, PathQ)}

InitSession ==
    /\ \E n \in 0..MaxLines : \E lines \in [1..n -> TranscriptLines] :
       \E path \in {MainS1, SubagentS1} :
          jsonl_files = <<[path |-> path, lines |-> lines]>>
    /\ heap = <<>>
    /\ futures = {}
    /\ all_ops = <<>>
    /\ completed = 0
    /\ raw_file_index = <<>>
    /\ file_index = <<>>
    /\ pc = "session"
    /\ ReplayIdle

\* ops = scan_session(path, backup_dir) in a worker
CallScanSession ==
    /\ pc = "session"
    /\ result' = ScanSessionLines(jsonl_files[1].path, jsonl_files[1].lines, TRUE)
    /\ call' = [fn |-> "scan_session", arg |-> 0]
    /\ pc' = "session_scanned"
    /\ UNCHANGED <<operations, heap, jsonl_files, futures, all_ops, completed,
                   raw_file_index, file_index>>

SpecSession == InitSession /\ [][CallScanSession]_vars

(***************************************************************************)
(* Scan and pipeline properties                                            *)
(***************************************************************************)
\* how often an object occurs in an index, over all its timelines
RECURSIVE Occurrences(_, _)
Occurrences(index, id) ==
    IF Len(index) = 0 THEN 0
    ELSE Cardinality({k \in 1..Len(Head(index).operations) :
                         Head(index).operations[k] = id})
         + Occurrences(Tail(index), id)

\* the operations of a timeline, as values
Timeline(h, ids) == [k \in 1..Len(ids) |-> h[ids[k]]]

\* the replay key (timestamp, session_id, line_number) of an operation
KeyOf(op) == <<op.timestamp, SessionRank(op.session_id), op.line_number>>

\* tuple order: x <= y
KeyLeq(x, y) ==
    \/ x[1] < y[1]
    \/ x[1] = y[1] /\ x[2] < y[2]
    \/ x[1] = y[1] /\ x[2] = y[2] /\ x[3] <= y[3]

InKeyOrder(ops) ==
    \A k \in 1..(Len(ops) - 1) : KeyLeq(KeyOf(ops[k]), KeyOf(ops[k + 1]))

RECURSIVE InDiscoveryOrder(_, _)
InDiscoveryOrder(h, transcripts) ==
    IF Len(transcripts) = 0 THEN <<>>
    ELSE (IF Head(transcripts).raises THEN <<>>
          ELSE ScanSession(h, Head(transcripts)))
         \o InDiscoveryOrder(h, Tail(transcripts))

PathsOf(index) == {index[k].path : k \in 1..Len(index)}

\* the same set of paths and, for each path, the same sequence of operations
SameIndex(h, x, y) ==
    /\ PathsOf(x) = PathsOf(y)
    /\ \A path \in PathsOf(x) :
        Timeline(h, OpsOf(x, path)) = Timeline(h, OpsOf(y, path))

\* C6: for a fixed set of transcripts scan_all_sessions returns the same index
\* under every completion order of the pool, also when a main transcript, its
\* backup copies and its subagent transcripts share one session id.
C6_ScheduleIndependent ==
    pc = "scanned"
        => SameIndex(heap, raw_file_index,
                     Aggregated(heap, InDiscoveryOrder(heap, jsonl_files)))

\* C7: no timeline returned by scan_all_sessions holds a non-errored Edit whose
\* 'before' state (original_file when present, else reconstruct_at(T, i-1))
\* equals its 'after' state reconstruct_at(T, i).
C7_NoNoopEdits ==
    pc = "scanned"
        => \A k \in 1..Len(raw_file_index) :
            LET T == Timeline(heap, raw_file_index[k].operations)
            IN  \A i \in 1..Len(T) :
                    (T[i].type = EDIT /\ ~T[i].is_error)
                        => ReconstructFileAt(T, i - 1) #
                             (IF T[i].original_file # None
                              THEN T[i].original_file
                              ELSE ReconstructFileAt(T, i - 2))

\* C7 without the errored operations: the same statement on the timelines that
\* hold no errored operation (the replay and the filter differ only on those)
C7_NoNoopEditsWithoutErrors ==
    pc = "scanned"
        => \A k \in 1..Len(raw_file_index) :
            LET T == Timeline(heap, raw_file_index[k].operations)
            IN  (\A j \in 1..Len(T) : ~T[j].is_error)
                    => \A i \in 1..Len(T) :
                        T[i].type = EDIT
                            => ReconstructFileAt(T, i - 1) #
                                 (IF T[i].original_file # None
                                  THEN T[i].original_file
                                  ELSE ReconstructFileAt(T, i - 2))

\* the transcripts whose scan raised, and the others
Failing == {t \in 1..Len(jsonl_files) : jsonl_files[t].raises}
Sound == SelectSeq(jsonl_files, LAMBDA f : ~f.raises)

\* C16: when scanning one transcript raises, scan_all_sessions still returns,
\* the index is that of the other transcripts with every operation of theirs,
\* and the failing transcript contributes none of its operations.
C16_FailureIsolation ==
    (pc = "scanned" /\ Failing # {})
        => /\ completed = Len(jsonl_files)
           /\ raw_file_index = Aggregated(heap, InDiscoveryOrder(heap, Sound))
           /\ \A t \in Failing : \A k \in 1..Len(jsonl_files[t].parsed) :
                 Occurrences(raw_file_index, jsonl_files[t].parsed[k]) = 0

\* C16 witness: the scan returned an index with the operations of the main
\* transcript while the other transcript, with operations of its own on the
\* same path, had raised
C16_Witness ==
    /\ pc = "scanned"
    /\ Failing = {2}
    /\ Len(jsonl_files[1].parsed) >= 1
    /\ Len(jsonl_files[2].parsed) >= 1
    /\ heap[jsonl_files[2].parsed[1]].file_path = heap[jsonl_files[1].parsed[1]].file_path
    /\ Len(raw_file_index) = 1
    /\ raw_file_index[1].operations = jsonl_files[1].parsed

(***************************************************************************)
(* Merge properties                                                        *)
(***************************************************************************)
\* the key of the timeline that holds an object
KeyHolding(index, id) ==
    (CHOOSE e \in {index[k] : k \in 1..Len(index)} :
        \E k \in 1..Len(e.operations) : e.operations[k] = id).path

\* C8: the operations of merge_file_index(I, G) over all timelines are exactly
\* those of I, none lost or duplicated, and an operation whose timeline path was
\* rewritten from an alias path P carries source_path = P.
C8_MergeKeepsOperations ==
    pc = "merged"
        => \A id \in DOMAIN heap :
            /\ Occurrences(file_index, id) = Occurrences(raw_file_index, id)
            /\ (/\ Occurrences(raw_file_index, id) > 0
                /\ KeyHolding(file_index, id) # KeyHolding(raw_file_index, id))
                   => heap[id].source_path = KeyHolding(raw_file_index, id)

\* C8 witness: the alias timeline /t/a (one operation) folded into the canonical
\* /r/a (two operations of its own), the three in key order
C8_Witness ==
    /\ pc = "merged"
    /\ Len(raw_file_index) = 2
    /\ Len(OpsOf(raw_file_index, PathP)) = 1
    /\ Len(OpsOf(raw_file_index, PathQ)) = 2
    /\ Len(file_index) = 1
    /\ Len(OpsOf(file_index, PathQ)) = 3
    /\ heap[OpsOf(raw_file_index, PathP)[1]].source_path = PathP
    /\ OpsOf(file_index, PathQ)[2] = OpsOf(raw_file_index, PathP)[1]

\* the objects reachable from an index
ObjectsOf(index) ==
    UNION {{index[k].operations[j] : j \in 1..Len(index[k].operations)} :
             k \in 1..Len(index)}

\* C9: merge_file_index(I, G) leaves I as it was: the same keys, the same
\* timelines, and every field of every operation reachable from I unchanged.
C9_MergeLeavesRawIndex ==
    [][(pc = "scanned" /\ pc' = "merged")
          => /\ raw_file_index' = raw_file_index
             /\ \A id \in ObjectsOf(raw_file_index) : heap'[id] = heap[id]]_vars


(***************************************************************************)
(* Injection stripping properties                                          *)
(***************************************************************************)
IsPrefix(x, y) == Len(x) <= Len(y) /\ SubSeq(y, 1, Len(x)) = x

\* an operation's trailing block is one of the given patterns
TrailingBlockIn(op, pattern_strings) ==
    /\ op.content # None
    /\ ExtractTrailingBlock(op.content) # None
    /\ ExtractTrailingBlock(op.content) \in pattern_strings

\* C10: after strip_injected_content(files, patterns) the content of every Read
\* is a prefix of its content before the call, every Read whose trailing block
\* is not one of the patterns keeps its content, and no field of any non-Read
\* operation changes.
C10_StripOnlyRemovesSuffix ==
    [][pc' = "stripped"
          => \A id \in DOMAIN heap :
              /\ heap[id].type = READ
                   => /\ [heap'[id] EXCEPT !.content = heap[id].content] = heap[id]
                      /\ IF heap[id].content = None
                         THEN heap'[id].content = None
                         ELSE /\ heap'[id].content # None
                              /\ IsPrefix(heap'[id].content, heap[id].content)
              /\ (heap[id].type = READ /\ ~TrailingBlockIn(heap[id], call'.arg))
                   => heap'[id].content = heap[id].content
              /\ heap[id].type # READ => heap'[id] = heap[id]]_vars

\* C10 witness: one Read lost its trailing block (its content begins with
\* whitespace and now ends before the blank line), the other Read still ends
\* with a block that is not among the patterns, and the Write still holds the
\* same block
C10_Witness ==
    /\ pc = "stripped"
    /\ result = 1
    /\ call.arg = {T_b}
    /\ heap[1].content = <<" ", "a">>
    /\ heap[2].content = T_a__b
    /\ heap[3].content # None
    /\ ExtractTrailingBlock(heap[3].content) = <<"a", " ", "b">>


(***************************************************************************)
(* scan_session properties                                                 *)
(***************************************************************************)
\* a line that fails JSON parsing or does not match the expected schema
IsMalformed(line) ==
    \/ line.shape \in {"undecodable", "not_object"}
    \/ line.shape = "object" /\ line.message = "not_object"

\* the transcript with its malformed lines blanked, the other lines in place
WithoutMalformed(lines) ==
    [k \in 1..Len(lines) |->
        IF IsMalformed(lines[k]) THEN Line("progress") ELSE lines[k]]

\* C15: a line that fails JSON parsing or is valid JSON not matching the
\* expected schema is skipped, and the operations of all the other lines of the
\* transcript are still emitted by scan_session.
C15_LineFailSoft ==
    pc = "session_scanned"
        => /\ ~result.raised
           /\ result.ops =
                ScanSessionLines(jsonl_files[1].path,
                                 WithoutMalformed(jsonl_files[1].lines), TRUE).ops

\* C15 for the lines that fail JSON parsing only
C15_UndecodableLinesSkipped ==
    (/\ pc = "session_scanned"
     /\ \A k \in 1..Len(jsonl_files[1].lines) :
           IsMalformed(jsonl_files[1].lines[k])
               => jsonl_files[1].lines[k].shape = "undecodable")
        => /\ ~result.raised
           /\ result.ops =
                ScanSessionLines(jsonl_files[1].path,
                                 WithoutMalformed(jsonl_files[1].lines), TRUE).ops

\* C17: every operation returned by the scan has an absolute path; a
\* FileHistory operation whose tracked path is relative is stored under the
\* path resolved against the session's cwd, wherever the cwd-carrying entry
\* stands in the transcript.
C17_AbsolutePaths ==
    (/\ pc = "session_scanned"
     /\ ~result.raised
     /\ \E k \in 1..Len(jsonl_files[1].lines) :
           /\ jsonl_files[1].lines[k].shape = "object"
           /\ TextTruthy(jsonl_files[1].lines[k].cwd))
        => \A k \in 1..Len(result.ops) : IsAbs(result.ops[k].file_path)

\* C17 for the snapshots that follow an entry carrying the cwd
C17_AbsolutePathsAfterCwd ==
    (/\ pc = "session_scanned"
     /\ ~result.raised
     /\ Len(jsonl_files[1].lines) > 0
     /\ jsonl_files[1].lines[1].shape = "object"
     /\ TextTruthy(jsonl_files[1].lines[1].cwd))
        => \A k \in 1..Len(result.ops) : IsAbs(result.ops[k].file_path)


(***************************************************************************)
(* Injection detection properties                                          *)
(***************************************************************************)
\* the Reads of file k that have content (present and not empty)
ContentReads(k) ==
    {id \in ObjectsOf(<<file_index[k]>>) :
        heap[id].type = READ /\ heap[id].content # None /\ Len(heap[id].content) > 0}

\* the files having at least one Read with content
FilesWithReads == {k \in 1..Len(file_index) : ContentReads(k) # {}}

HasTrailing(id, block) ==
    block # None /\ Len(block) > 0 /\ ExtractTrailingBlock(heap[id].content) = block

\* every string that is some Read's trailing block
TrailingBlocks ==
    {ExtractTrailingBlock(heap[id].content) :
        id \in UNION {ContentReads(k) : k \in FilesWithReads}} \ {None, <<>>}

FileCount(block) ==
    Cardinality({k \in FilesWithReads : \E id \in ContentReads(k) : HasTrailing(id, block)})

OpCount(block) ==
    Cardinality({id \in UNION {ContentReads(k) : k \in FilesWithReads} :
                    HasTrailing(id, block)})

Removed(before, after, block) ==
    /\ IsPrefix(after, before)
    /\ Strip(SubSeq(before, Len(after) + 1, Len(before))) = block
    /\ RStrip(after) = after

\* three files of one Read each, detection with threshold 0.20 done
ThreeReads ==
    /\ pc = "detected"
    /\ call.arg = 20
    /\ Len(file_index) = 3
    /\ \A k \in 1..3 : /\ Len(file_index[k].operations) = 1
                       /\ heap[file_index[k].operations[1]].type = READ

\* Reads i and j end with the block, Read k does not
SuffixOfTwo(i, j, k, block) ==
    /\ {i, j, k} = {1, 2, 3}
    /\ i < j
    /\ TextTruthy(heap[i].content) /\ HasTrailing(i, block)
    /\ TextTruthy(heap[j].content) /\ HasTrailing(j, block)
    /\ ~(TextTruthy(heap[k].content) /\ HasTrailing(k, block))

HasOwnBlock(id) ==
    TextTruthy(heap[id].content) /\ TextTruthy(ExtractTrailingBlock(heap[id].content))

\* C19 as stated: with threshold 0.20 and three files of one Read each, two of
\* them ending with the same blank-line-separated block, detection reports the
\* block and stripping removes it from those two Reads and leaves the third
\* Read unchanged, whatever its content.
C19_ScenarioAsStated ==
    [][(ThreeReads /\ pc' = "stripped")
          => \A i, j, k \in 1..3 : \A block \in TrailingBlocks :
                SuffixOfTwo(i, j, k, block)
                    => /\ \E p \in 1..Len(result) : result[p].content = block
                       /\ Removed(heap[i].content, heap'[i].content, block)
                       /\ Removed(heap[j].content, heap'[j].content, block)
                       /\ heap'[k] = heap[k]]_vars

\* C19 amended: the third Read is left unchanged when it has no trailing block
\* of its own; when it has one, that block is reported as well
\* (floor(0.20 * 3) = 0) and removed from it.
C19_Scenario ==
    [][(ThreeReads /\ pc' = "stripped")
          => \A i, j, k \in 1..3 : \A block \in TrailingBlocks :
                SuffixOfTwo(i, j, k, block)
                    => /\ \E p \in 1..Len(result) : result[p].content = block
                       /\ Removed(heap[i].content, heap'[i].content, block)
                       /\ Removed(heap[j].content, heap'[j].content, block)
                       /\ ~HasOwnBlock(k) => heap'[k] = heap[k]
                       /\ HasOwnBlock(k)
                            => /\ \E p \in 1..Len(result) :
                                    result[p].content
                                      = ExtractTrailingBlock(heap[k].content)
                               /\ Removed(heap[k].content, heap'[k].content,
                                          ExtractTrailingBlock(heap[k].content))]_vars

\* C19 witness: the two-line block "a\nb" was stripped from the Reads of two
\* files and the third file's Read, which has no block, is as it was
C19_Witness ==
    /\ pc = "stripped"
    /\ call.arg = {<<"a", LF, "b">>}
    /\ result = 2
    /\ Len(heap) = 3 /\ Len(file_index) = 3
    /\ heap[1].content = T_a
    /\ heap[2].content = T_b
    /\ heap[3].content = T_a


(***************************************************************************)
(* Time-bounded view properties                                            *)
(***************************************************************************)
\* where an object stands in a timeline, 0 if it is not in it
PositionIn(ids, id) ==
    IF \E p \in 1..Len(ids) : ids[p] = id
    THEN CHOOSE p \in 1..Len(ids) : ids[p] = id
    ELSE 0

\* `kept` holds exactly the operations of `ids` at or before the cutoff, in the
\* order they have in `ids`
TrimmedTo(h, ids, kept, cutoff) ==
    /\ \A p \in 1..Len(ids) :
          Cardinality({q \in 1..Len(kept) : kept[q] = ids[p]})
            = (IF h[ids[p]].timestamp <= cutoff THEN 1 ELSE 0)
    /\ \A q \in 1..Len(kept) : PositionIn(ids, kept[q]) > 0
    /\ \A q \in 1..(Len(kept) - 1) :
          PositionIn(ids, kept[q]) < PositionIn(ids, kept[q + 1])

\* C20: for a non-empty cutoff c, filter_by_timestamp returns for each file
\* exactly the operations with timestamp <= c in their original order, omits
\* every file left without operations, and leaves the input index, its
\* timelines and its operations unchanged.
C20_TimeBoundedView ==
    [][pc' = "trimmed"
          => /\ \A k \in 1..Len(file_index) :
                  LET ids == file_index[k].operations
                      left == \E p \in 1..Len(ids) :
                                  heap[ids[p]].timestamp <= call'.arg
                  IN  /\ left <=> HasPath(file_index', file_index[k].path)
                      /\ left => TrimmedTo(heap, ids,
                                           OpsOf(file_index', file_index[k].path),
                                           call'.arg)
             /\ PathsOf(file_index') \subseteq PathsOf(file_index)
             /\ Len(file_index') = Cardinality(PathsOf(file_index'))
             /\ heap' = heap
             /\ raw_file_index' = raw_file_index]_vars

\* C20 witness: cutoff 1 on an index of two files: one file keeps its first
\* operation and loses its second, the other file, whose only operation is
\* later than the cutoff, is gone
C20_Witness ==
    /\ pc = "trimmed"
    /\ call.arg = 1
    /\ Len(raw_file_index) = 2
    /\ Len(file_index) = 1
    /\ \E k \in 1..2 :
          /\ raw_file_index[k].path = file_index[1].path
          /\ Len(raw_file_index[k].operations) = 2
          /\ file_index[1].operations = <<raw_file_index[k].operations[1]>>
    /\ \E k \in 1..2 :
          /\ raw_file_index[k].path # file_index[1].path
          /\ Len(raw_file_index[k].operations) = 1

(***************************************************************************)
(* extract-files (cli.py): the recovered files written under output_dir    *)
(***************************************************************************)
MaxExtractFiles == 2  \* files in the index handed to extract-files

OutputDir == <<"/", "o">>

\* str.lstrip("/")
RECURSIVE LStripSlash(_)
LStripSlash(path) ==
    IF Len(path) > 0 /\ path[1] = "/" THEN LStripSlash(Tail(path)) ELSE path

\* output_dir / rel_path: pathlib drops the empty and the "." components of
\* rel_path and keeps its ".." components
PurePathJoin(output_dir, rel_path) ==
    LET parts == SelectSeq(SplitPath(rel_path),
                           LAMBDA p : p # <<>> /\ p # <<".">>)
    IN  IF Len(parts) = 0 THEN output_dir
        ELSE output_dir \o <<"/">> \o JoinPath(parts)

\* `for rf in files.values()` of extract_files from file k on; raising holds
\* the files whose mkdir or write_text raises
RECURSIVE ExtractLoop(_, _, _, _, _, _)
ExtractLoop(h, files, before_ts, raising, k, acc) ==
    IF k > Len(files) THEN acc
    ELSE LET rf == files[k]
             ops == [j \in 1..Len(rf.operations) |-> h[rf.operations[j]]]
             content == IF before_ts # NoInt
                        THEN ReconstructAtTimestamp(ops, before_ts)
                        ELSE ReconstructLatest(ops)
             rel_path == LStripSlash(rf.path)
             out_path == PurePathJoin(OutputDir, rel_path)
         IN  IF content = None
             THEN ExtractLoop(h, files, before_ts, raising, k + 1,
                              [acc EXCEPT !.skipped = @ + 1])
             ELSE IF k \in raising
             THEN ExtractLoop(h, files, before_ts, raising, k + 1,
                              [acc EXCEPT !.failed = @ + 1])
             ELSE ExtractLoop(h, files, before_ts, raising, k + 1,
                              [acc EXCEPT !.success = @ + 1,
                                          !.written =
                                             Append(@, [path |-> rf.path,
                                                        out_path |-> out_path,
                                                        content |-> content])])

\* the paths of the index: absolute ones, one through "..", one with a double
\* slash, one that climbs above the root, and relative ones
ExtractPaths ==
    {PathP, <<"/", "t", "/", "..", "/", "a">>, <<"/", "/", "t", "/", "b">>,
     <<"/", "..", "/", "x">>, <<"a">>, <<"..", "/", "x">>}

\* the timeline of a file: a Write, a Write of nothing, a Read without content
ExtractTimelines ==
    {<<[Blank(WRITE_CREATE) EXCEPT !.content = T_a, !.timestamp = 1]>>,
     <<[Blank(WRITE_CREATE) EXCEPT !.content = <<>>, !.timestamp = 2]>>,
     <<[Blank(READ) EXCEPT !.timestamp = 1]>>,
     <<[Blank(WRITE_CREATE) EXCEPT !.content = T_a, !.timestamp = 1],
       [Blank(WRITE_CREATE) EXCEPT !.content = T_b, !.timestamp = 2]>>}

InitExtract ==
    /\ \E n \in 1..MaxExtractFiles :
       \E paths \in [1..n -> ExtractPaths] : \E files \in [1..n -> ExtractTimelines] :
          /\ \A i, j \in 1..n : i # j => paths[i] # paths[j]
          /\ heap = [id \in 1..(2 * n) |->
                       LET k == (id + 1) \div 2
                           j == IF id % 2 = 1 THEN 1 ELSE 2
                       IN  [files[k][Min(j, Len(files[k]))]
                               EXCEPT !.file_path = paths[k], !.line_number = j]]
          /\ file_index = [k \in 1..n |->
                             [path |-> paths[k],
                              operations |->
                                 [j \in 1..Len(files[k]) |-> 2 * (k - 1) + j]]]
    /\ raw_file_index = file_index
    /\ all_ops = <<>>
    /\ jsonl_files = <<>>
    /\ futures = {}
    /\ completed = 0
    /\ pc = "filtered"
    /\ ReplayIdle

\* extract_files from its timestamp filter on: the time-bounded view, the
\* early exit on an empty index, and the write of every file
ExtractFiles ==
    /\ pc = "filtered"
    /\ \E before_ts \in {NoInt, 1} :
        LET files == FilterByTimestamp(heap, file_index, before_ts)
        IN  /\ call' = [fn |-> "extract_files", arg |-> before_ts]
            /\ file_index' = files
            /\ IF Len(files) = 0
               THEN /\ result' = None
                    /\ pc' = "exit"
               ELSE /\ \E raising \in SUBSET (1..Len(files)) :
                         result' = ExtractLoop(heap, files, before_ts, raising, 1,
                                               [success |-> 0, skipped |-> 0,
                                                failed |-> 0, written |-> <<>>])
                    /\ pc' = "extracted"
    /\ UNCHANGED <<operations, heap, jsonl_files, futures, all_ops, completed,
                   raw_file_index>>

SpecExtract == InitExtract /\ [][ExtractFiles]_vars

\* Path.resolve() of a path none of whose components is a symbolic link
Resolve(path) == NormPath(path)

\* a resolved path lies inside a directory
Inside(path, dir) == IsPrefix(dir \o <<"/">>, path)

\* what extract-files is to make of the file at position k of the index
ContentOf(k) ==
    LET ops == Timeline(heap, file_index[k].operations)
    IN  IF call.arg # NoInt THEN ReconstructAtTimestamp(ops, call.arg)
        ELSE ReconstructLatest(ops)

\* C21 (as claimed): every file of the index with a reconstruction is written
\* (or counted as failed) at output_dir joined with its path stripped of its
\* leading slashes, that location resolves to a place inside output_dir, a
\* file without reconstruction is skipped, and success + skipped + failed is
\* the number of files processed
C21_OutputContainment ==
    pc = "extracted"
    => /\ result.success + result.skipped + result.failed = Len(file_index)
       /\ result.skipped
            = Cardinality({k \in 1..Len(file_index) : ContentOf(k) = None})
       /\ result.success = Len(result.written)
       /\ \A w \in 1..Len(result.written) :
            /\ \E k \in 1..Len(file_index) :
                 /\ file_index[k].path = result.written[w].path
                 /\ ContentOf(k) = result.written[w].content
                 /\ ContentOf(k) # None
            /\ Resolve(result.written[w].out_path)
                 = Resolve(OutputDir \o <<"/">> \o LStripSlash(result.written[w].path))
            /\ Inside(Resolve(result.written[w].out_path), OutputDir)

\* C21 (what holds): the same without the containment
C21_WritesAndCounts ==
    pc = "extracted"
    => /\ result.success + result.skipped + result.failed = Len(file_index)
       /\ result.skipped
            = Cardinality({k \in 1..Len(file_index) : ContentOf(k) = None})
       /\ result.success = Len(result.written)
       /\ \A w \in 1..Len(result.written) :
            /\ \E k \in 1..Len(file_index) :
                 /\ file_index[k].path = result.written[w].path
                 /\ ContentOf(k) = result.written[w].content
                 /\ ContentOf(k) # None
            /\ Resolve(result.written[w].out_path)
                 = Resolve(OutputDir \o <<"/">> \o LStripSlash(result.written[w].path))


(***************************************************************************)
(* splice_read against the splice the specification describes              *)
(***************************************************************************)
\* the baseline of the specified splice: target_len empty lines when the
\* content is absent, else the content's lines padded up to target_len
SpliceBaseline(existing, target_len) ==
    IF existing = None THEN EmptyLines(target_len)
    ELSE LET old_lines == SplitLines(existing)
         IN  old_lines \o EmptyLines(Max(target_len - Len(old_lines), 0))

\* lines is the baseline with new_lines written at the 0-based line start:
\* new_lines[k] at line start + k, the baseline's line elsewhere, nothing else
IsSpliceOf(lines, baseline, new_lines, start) ==
    /\ \A k \in 1..Len(new_lines) :
          /\ start + k \in 1..Len(lines)
          /\ lines[start + k] = new_lines[k]
    /\ \A i \in 1..Len(baseline) :
          i \notin (start + 1)..(start + Len(new_lines))
             => i <= Len(lines) /\ lines[i] = baseline[i]
    /\ \A i \in 1..Len(lines) :
          i \in (start + 1)..(start + Len(new_lines)) \/ i <= Len(baseline)

\* C22 (as claimed): for every input, with start = (start_line ?? 1) - 1 and
\* target_len = total_lines ?? start + |L_new|, what splice_read returns is
\* the baseline with L_new written at line start
C22_SpliceAsSpecified ==
    pc = "spliced"
    => LET new_lines == SplitLines(call.arg.new_content)
           start == (IF call.arg.start_line = NoInt THEN 1
                     ELSE call.arg.start_line) - 1
           target_len == IF call.arg.total_lines = NoInt
                         THEN start + Len(new_lines)
                         ELSE call.arg.total_lines
       IN  IsSpliceOf(SplitLines(result),
                      SpliceBaseline(call.arg.existing, target_len),
                      new_lines, start)

\* C22 where the window starts no later than the end of the baseline and
\* start_line is absent or 1-based
C22_SpliceAsSpecifiedInRange ==
    (/\ pc = "spliced"
     /\ call.arg.start_line # 0)
    => LET new_lines == SplitLines(call.arg.new_content)
           start == (IF call.arg.start_line = NoInt THEN 1
                     ELSE call.arg.start_line) - 1
           target_len == IF call.arg.total_lines = NoInt
                         THEN start + Len(new_lines)
                         ELSE call.arg.total_lines
           baseline == SpliceBaseline(call.arg.existing, target_len)
       IN  start <= Len(baseline)
              => IsSpliceOf(SplitLines(result), baseline, new_lines, start)


(***************************************************************************)
(* scan_session line by line: one iteration of its loop per step, then its *)
(* return.  While the loop runs, result holds the locals (ops, pending_ops *)
(* as tool_use_id -> position in ops, cwd) and completed the number of     *)
(* lines read; at the return, operations keeps the local ops and result    *)
(* holds what scan_session returned.                                       *)
(***************************************************************************)
MaxToolLines == 3     \* lines of the transcript read line by line

T_x_ == <<"x", " ">>
Tid4 == <<"t4">>

EditInput(old_string, new_string) ==
    [NoInput EXCEPT !.file_path = PathP, !.old_string = old_string,
                    !.new_string = new_string]

\* the toolUseResult of a Write: type, filePath, content, originalFile
WriteResult(type, content, originalFile) ==
    [ToolUseResult(PathP) EXCEPT !.type = type, !.content = content,
                                 !.originalFile = originalFile]

\* the toolUseResult of an Edit: filePath, oldString, newString, originalFile
EditResult(oldString, newString, originalFile) ==
    [ToolUseResult(PathP) EXCEPT !.oldString = oldString, !.newString = newString,
                                 !.originalFile = originalFile]

ToolLines ==
    {Line("not_object"),
     Assistant(1, ToolUse("Write", Tid1,
                          [NoInput EXCEPT !.file_path = PathP, !.content = T_a])),
     Assistant(1, ToolUse("Write", Tid4,
                          [NoInput EXCEPT !.file_path = PathQ, !.content = T_a])),
     Assistant(2, ToolUse("Edit", Tid2, EditInput(T_a, T_b))),
     Assistant(2, ToolUse("Edit", Tid2, EditInput(T_a, None))),
     Assistant(2, ToolUse("Edit", Tid2, EditInput(T_a, T_a))),
     Assistant(2, ToolUse("Edit", Tid2, EditInput(<<>>, T_b))),
     Assistant(2, ToolUse("Read", Tid3, [NoInput EXCEPT !.file_path = PathP])),
     [Assistant(2, ToolUse("Write", Tid1,
                           [NoInput EXCEPT !.file_path = PathP, !.content = T_a]))
         EXCEPT !.content = Append(@, ToolUse("Edit", Tid2, EditInput(T_a, T_b)))],
     Snapshot(2, PathP),
     User(3, WriteResult("create", T_c, None), <<ToolResult(Tid1, FALSE, <<>>)>>),
     User(3, WriteResult("update", T_c, T_a), <<ToolResult(Tid1, FALSE, <<>>)>>),
     User(3, EditResult(T_a, T_b, T_aba), <<ToolResult(Tid2, FALSE, <<>>)>>),
     User(3, EditResult(T_a, T_b, T_c), <<ToolResult(Tid2, FALSE, <<>>)>>),
     User(3, NoToolUseResult, <<ToolResult(Tid2, TRUE, T_x_)>>),
     User(3, ReadResult(PathP, 1, 1, 1),
          <<ToolResult(Tid3, FALSE, <<" ", "1", Arrow, "b">>)>>),
     User(3, NoToolUseResult, <<ToolResult(Tid3, FALSE, T_c)>>),
     User(3, NoToolUseResult, <<ToolResult(Tid3, TRUE, T_x_)>>),
     User(3, [NoToolUseResult EXCEPT !.kind = "str", !.text = <<"Error: ", "x">>],
          <<ToolResult(Tid1, TRUE, T_x_)>>)}

InitLines ==
    /\ \E n \in 0..MaxToolLines : \E lines \in [1..n -> ToolLines] :
          jsonl_files = <<[path |-> MainS1, lines |-> lines]>>
    /\ result = [ops |-> <<>>, pending |-> <<>>, cwd |-> None, raised |-> FALSE]
    /\ completed = 0
    /\ operations = <<>>
    /\ call = [fn |-> "scan_session", arg |-> 0]
    /\ heap = <<>>
    /\ futures = {}
    /\ all_ops = <<>>
    /\ raw_file_index = <<>>
    /\ file_index = <<>>
    /\ pc = "reading"

\* one iteration of `for line_num, line in enumerate(f, 1)`; an exception
\* leaves scan_session
ReadLine ==
    /\ pc = "reading"
    /\ completed < Len(jsonl_files[1].lines)
    /\ LET st == ScanLine(result, jsonl_files[1].lines[completed + 1],
                          ExtractSessionId(jsonl_files[1].path),
                          IsSubagentFile(jsonl_files[1].path), completed + 1, TRUE)
       IN  /\ result' = st
           /\ pc' = IF st.raised THEN "raised" ELSE "reading"
    /\ completed' = completed + 1
    /\ UNCHANGED <<operations, call, heap, jsonl_files, futures, all_ops,
                   raw_file_index, file_index>>

\* return [op for op in ops if not _is_noop_edit(op)]
ReturnOps ==
    /\ pc = "reading"
    /\ completed = Len(jsonl_files[1].lines)
    /\ operations' = result.ops
    /\ result' = [raised |-> FALSE,
                  ops |-> SelectSeq(result.ops, LAMBDA op : ~IsNoopEdit(op))]
    /\ pc' = "returned"
    /\ UNCHANGED <<call, heap, jsonl_files, futures, all_ops, completed,
                   raw_file_index, file_index>>

\* scan_all_sessions with this transcript alone, once its future completed:
\* all_ops.extend(ops), then group, sort and drop the replay-level no-op Edits
IndexReturned ==
    /\ pc = "returned"
    /\ heap' = result.ops
    /\ all_ops' = [k \in 1..Len(result.ops) |-> k]
    /\ raw_file_index' = Aggregated(heap', all_ops')
    /\ file_index' = raw_file_index'
    /\ pc' = "indexed"
    /\ UNCHANGED <<operations, call, result, jsonl_files, futures, completed>>

NextLines == ReadLine \/ ReturnOps \/ IndexReturned

SpecLines == InitLines /\ [][NextLines]_vars


(***************************************************************************)
(* Properties of the scan of one transcript                                *)
(***************************************************************************)
NonErroredEdit(op) == op.type = EDIT /\ ~op.is_error

\* the three conditions of the field-level rule, as stated
StatedNoop(op) ==
    \/ op.old_string = None \/ op.old_string = <<>>
    \/ op.old_string = op.new_string
    \/ op.original_file # None /\ ~Contains(op.original_file, op.old_string)

\* how often an operation value stands in a list
CountIn(ops, op) == Cardinality({k \in 1..Len(ops) : ops[k] = op})

\* C23 (as claimed): what scan_session returns holds no non-errored Edit whose
\* old_string is absent or empty, whose old_string equals new_string, or whose
\* original_file is present and does not contain old_string, and every
\* non-errored Edit meeting none of the three is still in what it returns
C23_FieldLevelNoopAsStated ==
    pc = "returned"
    => /\ \A k \in 1..Len(result.ops) :
            NonErroredEdit(result.ops[k]) => ~StatedNoop(result.ops[k])
       /\ \A k \in 1..Len(operations) :
            (NonErroredEdit(operations[k]) /\ ~StatedNoop(operations[k]))
               => CountIn(result.ops, operations[k]) = CountIn(operations, operations[k])

\* C23 (amended): the same with a fourth condition, new_string absent
C23_FieldLevelNoop ==
    pc = "returned"
    => /\ \A k \in 1..Len(result.ops) :
            NonErroredEdit(result.ops[k])
               => /\ ~StatedNoop(result.ops[k])
                  /\ result.ops[k].new_string # None
       /\ \A k \in 1..Len(operations) :
            (/\ NonErroredEdit(operations[k])
             /\ ~StatedNoop(operations[k])
             /\ operations[k].new_string # None)
               => CountIn(result.ops, operations[k]) = CountIn(operations, operations[k])

\* C23 witness: the scan emitted an Edit whose result carried a pre-edit file
\* without old_string, which the return leaves out, and an Edit that meets no
\* condition, which the return keeps
C23_Witness ==
    /\ pc = "returned"
    /\ \E k \in 1..Len(operations) :
          /\ NonErroredEdit(operations[k])
          /\ operations[k].old_string = T_a /\ operations[k].new_string = T_b
          /\ operations[k].original_file = T_c
          /\ CountIn(result.ops, operations[k]) = 0
    /\ \E k \in 1..Len(operations) :
          /\ NonErroredEdit(operations[k])
          /\ ~StatedNoop(operations[k])
          /\ operations[k].new_string # None
          /\ CountIn(result.ops, operations[k]) = 1


\* how often an operation value stands in the timeline of a path
CountInTimeline(index, h, path, op) ==
    CountIn(Timeline(h, OpsOf(index, path)), op)

\* C24: an Edit marked is_error is removed by neither no-op elimination, so
\* every errored Edit emitted while the transcript was parsed is in the final
\* timeline of its path
C24_ErroredEditsKept ==
    pc = "indexed"
    => \A k \in 1..Len(operations) :
          (operations[k].type = EDIT /\ operations[k].is_error)
             => /\ CountIn(result.ops, operations[k]) = 1
                /\ CountInTimeline(raw_file_index, heap,
                                   operations[k].file_path, operations[k]) = 1

\* C24 witness: an errored Edit whose old_string equals its new_string, which
\* would be a no-op by its fields and by replay, stands in the final timeline
\* behind a Write
C24_Witness ==
    /\ pc = "indexed"
    /\ \E k \in 1..Len(operations) :
          /\ operations[k].type = EDIT /\ operations[k].is_error
          /\ operations[k].old_string = operations[k].new_string
          /\ Len(OpsOf(raw_file_index, PathP)) = 2
          /\ heap[OpsOf(raw_file_index, PathP)[2]] = operations[k]


\* the line the loop of scan_session reads next
NextLine == jsonl_files[1].lines[completed + 1]

\* the step reads a user entry whose toolUseResult is an object naming a path
EnrichingStep ==
    /\ pc = "reading"
    /\ completed' = completed + 1
    /\ NextLine.shape = "object" /\ NextLine.type = "user"
    /\ NextLine.toolUseResult.kind = "dict"
    /\ \/ TextTruthy(NextLine.toolUseResult.filePath)
       \/ NextLine.toolUseResult.hasFile
          /\ TextTruthy(NextLine.toolUseResult.file_filePath)

\* the path that object names
NamedPath ==
    IF TextTruthy(NextLine.toolUseResult.filePath)
    THEN NextLine.toolUseResult.filePath
    ELSE NextLine.toolUseResult.file_filePath

\* the operations a tool_result block of the line names by its tool_use_id
NamedByBlock ==
    {PendingAt(result.pending, NextLine.content[b].tool_use_id) :
        b \in {c \in 1..Len(NextLine.content) :
                  NextLine.content[c].type = "tool_result"}}

\* operation m of the list is enriched as stated and no other operation of
\* the list changes (m = 0: none is enriched)
EnrichedAt(m) ==
    LET res == NextLine.toolUseResult
    IN  /\ Len(result'.ops) = Len(result.ops)
        /\ m > 0 /\ res.type = "create"
              => /\ result'.ops[m].type = WRITE_CREATE
                 /\ result'.ops[m].content = res.content
                 /\ result'.ops[m].original_file = None
        /\ m > 0 /\ res.type = "update"
              => /\ result'.ops[m].type = WRITE_UPDATE
                 /\ result'.ops[m].content = res.content
                 /\ result'.ops[m].original_file = res.originalFile
        /\ \A k \in 1..Len(result.ops) :
              (k # m /\ k \notin NamedByBlock) => result'.ops[k] = result.ops[k]

\* the largest element of a set of positions, 0 for the empty set
Last(S) == IF S = {} THEN 0 ELSE CHOOSE k \in S : \A j \in S : j <= k

DistinctToolUseIds ==
    \A i, j \in 1..Len(result.ops) :
        (i # j /\ TextTruthy(result.ops[i].tool_use_id))
           => result.ops[i].tool_use_id # result.ops[j].tool_use_id

UserStep ==
    /\ pc = "reading"
    /\ completed' = completed + 1
    /\ NextLine.shape = "object" /\ NextLine.type = "user"
    /\ NextLine.message = "object"

\* the tool_result blocks of the line read
ResultBlocks ==
    {NextLine.content[b] : b \in {c \in 1..Len(NextLine.content) :
                                     NextLine.content[c].type = "tool_result"}}

\* the operation emitted last with a tool_use_id, 0 if there is none
EmittedWithId(id) ==
    Last({k \in 1..Len(result.ops) : result.ops[k].tool_use_id = id})

\* what a Read's content becomes from the content of a tool_result block
ContentFromBlock(block) ==
    IF Contains(block.content, <<Arrow>>) THEN StripReadLineNumbers(block.content)
    ELSE block.content

\* C26: a tool_result block with is_error marks errored the operation with the
\* block's tool_use_id and no other, and sets no content on it; a tool_result
\* without is_error sets the content of a Read only when the Read has none
\* yet, so a later tool_result for the same id never overwrites it
C26_ErrorMarkingById ==
    [][UserStep
         => /\ Len(result'.ops) = Len(result.ops)
            /\ \A b \in ResultBlocks :
                 (b.is_error /\ TextTruthy(b.tool_use_id)
                      /\ EmittedWithId(b.tool_use_id) > 0)
                    => LET m == EmittedWithId(b.tool_use_id)
                       IN  /\ result'.ops[m].is_error
                           /\ NextLine.toolUseResult.kind # "dict"
                                 => result'.ops[m].content = result.ops[m].content
            /\ \A k \in 1..Len(result.ops) :
                 (result'.ops[k].is_error /\ ~result.ops[k].is_error)
                    => \E b \in ResultBlocks :
                          /\ b.tool_use_id = result.ops[k].tool_use_id
                          /\ k = EmittedWithId(b.tool_use_id)
                          /\ b.is_error \/ NextLine.toolUseResult.kind = "str"
            /\ \A k \in 1..Len(result.ops) :
                 (result.ops[k].type = READ /\ result'.ops[k].type = READ)
                    => IF result.ops[k].content # None
                       THEN result'.ops[k].content = result.ops[k].content
                       ELSE \/ result'.ops[k].content = None
                            \/ \E b \in ResultBlocks :
                                  /\ ~b.is_error
                                  /\ b.tool_use_id = result.ops[k].tool_use_id
                                  /\ result'.ops[k].content = ContentFromBlock(b)]_vars

\* C26 witness: a Read, an errored tool_result for it, which marks it and
\* leaves it without content, then a tool_result without is_error, which
\* gives it its content
C26_Witness ==
    /\ pc = "reading"
    /\ completed = 3
    /\ jsonl_files[1].lines[2] = User(3, NoToolUseResult, <<ToolResult(Tid3, TRUE, T_x_)>>)
    /\ jsonl_files[1].lines[3] = User(3, NoToolUseResult, <<ToolResult(Tid3, FALSE, T_c)>>)
    /\ Len(result.ops) = 1
    /\ result.ops[1].type = READ
    /\ result.ops[1].is_error
    /\ result.ops[1].content = T_c

\* C26 second witness state: a Read that has its content from a first
\* tool_result keeps it when a second tool_result for the same id arrives
C26_WitnessKept ==
    /\ pc = "reading"
    /\ completed = 3
    /\ jsonl_files[1].lines[3] = User(3, NoToolUseResult, <<ToolResult(Tid3, FALSE, T_c)>>)
    /\ Len(result.ops) = 1
    /\ result.ops[1].type = READ
    /\ result.ops[1].content = T_b


(***************************************************************************)
(* merge_file_index called on its own, the groups it was given on record   *)
(***************************************************************************)
\* new_index = merge_file_index(file_index, groups)
CallMergeFileIndex ==
    /\ pc = "scanned"
    /\ \E groups \in GroupLists :
        LET merged == MergeFileIndex(heap, file_index, groups)
        IN  /\ file_index' = merged.index
            /\ heap' = merged.heap
            /\ call' = [fn |-> "merge_file_index", arg |-> groups]
    /\ pc' = "merged"
    /\ UNCHANGED <<jsonl_files, futures, all_ops, completed, raw_file_index,
                   operations, result>>

SpecAlias == InitMerge /\ [][CallMergeFileIndex]_vars

\* the aliases of the groups, each with the canonical prefix of its group
AliasPairs(groups) ==
    UNION {{<<groups[g].aliases[a], groups[g].canonical>> :
               a \in 1..Len(groups[g].aliases)} : g \in 1..Len(groups)}

\* a path matches an alias: it is the alias or continues it after a "/"
MatchesAlias(path, alias) == path = alias \/ IsPrefix(alias \o <<"/">>, path)

\* the pairs whose alias matches the path, and those with the longest alias
Matching(groups, path) ==
    {p \in AliasPairs(groups) : MatchesAlias(path, p[1])}

LongestMatching(groups, path) ==
    {p \in Matching(groups, path) :
        \A q \in Matching(groups, path) : Len(q[1]) <= Len(p[1])}

\* C27: a path matching one or several aliases is mapped to canonical(A)
\* followed by the rest of the path after A, A the longest matching alias, and
\* its operations get the path as source_path; a path matching no alias keeps
\* its key and its operations keep their source_path
C27_MostSpecificAlias ==
    pc = "merged"
    => \A k \in 1..Len(raw_file_index) :
          LET path == raw_file_index[k].path
              ids == raw_file_index[k].operations
              longest == LongestMatching(call.arg, path)
          IN  IF longest = {}
              THEN \A i \in 1..Len(ids) :
                      /\ \E j \in 1..Len(OpsOf(file_index, path)) :
                            OpsOf(file_index, path)[j] = ids[i]
                      /\ heap[ids[i]].source_path = None
              ELSE \E p \in longest :
                      LET key == p[2] \o SubSeq(path, Len(p[1]) + 1, Len(path))
                      IN  \A i \in 1..Len(ids) :
                             /\ \E j \in 1..Len(OpsOf(file_index, key)) :
                                   OpsOf(file_index, key)[j] = ids[i]
                             /\ heap[ids[i]].source_path = path

\* C27 witness: /t/s/a matches the alias /t of /r and the alias /t/s of /u and
\* is found under /u/a, while /r/a, which matches no alias, is under its own key
C27_Witness ==
    /\ pc = "merged"
    /\ Len(call.arg) = 2
    /\ HasPath(raw_file_index, DirTS \o <<"/", "a">>)
    /\ Cardinality(Matching(call.arg, DirTS \o <<"/", "a">>)) = 2
    /\ HasPath(file_index, DirU \o <<"/", "a">>)
    /\ HasPath(raw_file_index, PathQ)
    /\ HasPath(file_index, PathQ)
    /\ ~HasPath(file_index, DirR \o <<"/", "s", "/", "a">>)


(***************************************************************************)
(* scan_all_sessions with a progress callback: result is the list of the   *)
(* (completed, total) pairs the callback has been called with              *)
(***************************************************************************)
MaxTranscripts == 3   \* transcripts discover_jsonl_files found

TranscriptPaths == <<MainS1, MainS2, SubagentS1, BackupS1>>

\* what scan_session would return for a transcript: nothing, a Write, or an
\* Edit of that Write's content
TranscriptOps ==
    {<<>>,
     <<At([Blank(WRITE_CREATE) EXCEPT !.content = T_a], 1)>>,
     <<At([Blank(EDIT) EXCEPT !.old_string = T_a, !.new_string = T_b], 2)>>}

InitProgress ==
    /\ \E n \in 0..MaxTranscripts :
       \E ops \in [1..n -> TranscriptOps] : \E raises \in [1..n -> BOOLEAN] :
          LET holders == SelectSeq([t \in 1..n |-> t], LAMBDA t : Len(ops[t]) = 1)
          IN  /\ heap = [id \in 1..Len(holders) |->
                           Parsed(TranscriptPaths[holders[id]], ops[holders[id]][1], 1)]
              /\ jsonl_files =
                   [t \in 1..n |->
                      [path |-> TranscriptPaths[t],
                       parsed |-> SelectSeq([id \in 1..Len(holders) |-> id],
                                            LAMBDA id : holders[id] = t),
                       raises |-> raises[t]]]
              /\ futures = 1..n
    /\ all_ops = <<>>
    /\ completed = 0
    /\ raw_file_index = <<>>
    /\ file_index = <<>>
    /\ pc = "scan"
    /\ operations = <<>>
    /\ call = NoCall
    /\ result = <<>>

\* mutant: the callback is called only after future.result() returned
CompleteReportingSuccess ==
    /\ pc = "scan"
    /\ \E t \in futures :
        /\ futures' = futures \ {t}
        /\ completed' = completed + 1
        /\ result' = IF jsonl_files[t].raises THEN result
                     ELSE Append(result, <<completed', Len(jsonl_files)>>)
        /\ all_ops' = IF jsonl_files[t].raises THEN all_ops
                      ELSE all_ops \o ScanSession(heap, jsonl_files[t])
    /\ UNCHANGED <<heap, jsonl_files, raw_file_index, file_index, pc,
                   operations, call>>

\* one turn of `for future in as_completed(futures)` with a progress_callback:
\* the counter, the callback, then the result of the future or its exception
CompleteReporting ==
    /\ pc = "scan"
    /\ \E t \in futures :
        /\ futures' = futures \ {t}
        /\ completed' = completed + 1
        /\ result' = Append(result, <<completed', Len(jsonl_files)>>)
        /\ all_ops' = IF jsonl_files[t].raises THEN all_ops
                      ELSE all_ops \o ScanSession(heap, jsonl_files[t])
    /\ UNCHANGED <<heap, jsonl_files, raw_file_index, file_index, pc,
                   operations, call>>

NextProgress == CompleteReporting \/ Aggregate

\* WF_vars(Aggregate), its ENABLED written out: Aggregate can be taken exactly
\* when the loop has taken every future, and it always changes pc
AggregateIsFair ==
    \/ []<>~(pc = "scan" /\ futures = {})
    \/ []<><<Aggregate>>_vars

\* the pool runs every submitted scan to its end and as_completed yields
\* every completed future, so the loop goes on while futures are out and the
\* function goes on behind the loop
SpecProgress ==
    InitProgress /\ [][NextProgress]_vars
        /\ WF_vars(CompleteReporting) /\ AggregateIsFair

\* C28: over N transcripts the callback is called N times, with total = N
\* every time and completed = 1, 2, ..., N in that order, transcripts whose
\* scan failed included; the scan then ends and returns the index
C28_ProgressReporting ==
    /\ [](\A k \in 1..Len(result) : result[k] = <<k, Len(jsonl_files)>>)
    /\ [](pc = "scanned" => Len(result) = Len(jsonl_files))
    /\ <>(pc = "scanned")

\* C28 witness: the scan of three transcripts, one of which failed, returned
\* after three calls of the callback
C28_Witness ==
    /\ pc = "scanned"
    /\ Len(jsonl_files) = 3
    /\ Cardinality(Failing) = 1
    /\ result = <<<<1, 3>>, <<2, 3>>, <<3, 3>>>>
    /\ Len(raw_file_index) = 1


\* the replay keys of the timelines of the index are pairwise distinct
KeysDistinct ==
    \A f \in 1..Len(raw_file_index) :
       LET T == Timeline(heap, raw_file_index[f].operations)
       IN  \A i, j \in 1..Len(T) : i # j => KeyOf(T[i]) # KeyOf(T[j])

\* C29: among the operations one transcript contributes to one timeline, no
\* two have the same (timestamp, session_id, line_number) key
C29_SortKeyUnique ==
    pc = "indexed" => KeysDistinct

\* C29 for the transcripts none of whose lines holds two tool_use blocks
C29_SortKeyUniqueOneBlockPerLine ==
    (/\ pc = "indexed"
     /\ \A k \in 1..Len(jsonl_files[1].lines) :
           Len(jsonl_files[1].lines[k].content) <= 1)
    => KeysDistinct


(***************************************************************************)
(* core/filters.py: match_path, validate_regex, filter_files               *)
(*                                                                         *)
(* Patterns are texts over the letters a and A, the dot and the opening    *)
(* parenthesis.  Over these, re.compile raises exactly for the patterns    *)
(* holding a parenthesis (it is never closed), a dot matches any           *)
(* character, and a glob pattern, having no wildcard, matches the text     *)
(* equal to it.  The fuzzy mode (textual's Matcher) is left out.           *)
(***************************************************************************)
GLOB == "glob"
REGEX == "regex"

IsUpper(c) == c = "A"
Lower(c) == IF c = "A" THEN "a" ELSE c
LowerText(s) == [k \in 1..Len(s) |-> Lower(s[k])]

\* smart_case_sensitive(pattern, explicit_override), the override "none" for None
SmartCaseSensitive(pattern, explicit_override) ==
    IF explicit_override # "none" THEN explicit_override = "sensitive"
    ELSE \E k \in 1..Len(pattern) : IsUpper(pattern[k])

\* re.compile(pattern) raises re.error
ReError(pattern) == \E k \in 1..Len(pattern) : pattern[k] = "("

\* re.search(pattern, path, flags) finds a match, for a pattern that compiles
ReSearch(pattern, path, ignorecase) ==
    \E i \in 0..(Len(path) - Len(pattern)) :
       \A k \in 1..Len(pattern) :
          \/ pattern[k] = "."
          \/ IF ignorecase THEN Lower(pattern[k]) = Lower(path[i + k])
             ELSE pattern[k] = path[i + k]

\* path.rsplit("/", 1)[-1]
Basename(path) ==
    IF Contains(path, <<"/">>) THEN Slice(path, RFind(path, <<"/">>) + 1, Len(path))
    ELSE path

\* match_path(path, pattern, mode, case_sensitive): 1 for 1.0, 0 for 0.0
MatchPath(path, pattern, mode, case_sensitive) ==
    IF Len(pattern) = 0 THEN 1
    ELSE IF mode = GLOB
    THEN IF case_sensitive
         THEN IF path = pattern \/ Basename(path) = pattern THEN 1 ELSE 0
         ELSE IF \/ LowerText(path) = LowerText(pattern)
                 \/ LowerText(Basename(path)) = LowerText(pattern) THEN 1 ELSE 0
    ELSE IF mode = REGEX
    THEN IF ReError(pattern) THEN 0
         ELSE IF ReSearch(pattern, path, ~case_sensitive) THEN 1 ELSE 0
    ELSE 0

\* validate_regex(pattern): the message of re.error, or None
ValidateRegex(pattern) ==
    IF ReError(pattern) THEN <<"missing ), unterminated subpattern">> ELSE None

\* filter_files(files, pattern, mode, case_sensitive_override): the dict it
\* returns (it has no other outcome: match_path does not raise)
FilterFiles(files, pattern, mode, case_sensitive_override) ==
    IF Len(pattern) = 0 THEN files
    ELSE LET case_sensitive == SmartCaseSensitive(pattern, case_sensitive_override)
         IN  SelectSeq(files, LAMBDA rf :
                 MatchPath(rf.path, pattern, mode, case_sensitive) > 0)

MaxPatternLen == 2    \* characters in a pattern
MaxFilterFiles == 2   \* files in the index handed to the filter

Patterns == TextsOver({"a", "A", ".", "("}, MaxPatternLen)

FilterPaths == <<PathP, PathQ, <<"/", "t", "/", "A">>, <<"/", "t", "/", "a", "a">>>>

InitFilter ==
    /\ \E n \in 0..MaxFilterFiles : \E which \in [1..n -> 1..Len(FilterPaths)] :
          /\ \A i, j \in 1..n : i < j => which[i] < which[j]
          /\ heap = [id \in 1..n |->
                       [Blank(WRITE_CREATE) EXCEPT !.file_path = FilterPaths[which[id]],
                                                   !.timestamp = 1,
                                                   !.line_number = id,
                                                   !.content = T_a]]
          /\ raw_file_index = [k \in 1..n |->
                                 [path |-> FilterPaths[which[k]], operations |-> <<k>>]]
    /\ file_index = raw_file_index
    /\ jsonl_files = <<>>
    /\ futures = {}
    /\ all_ops = <<>>
    /\ completed = 0
    /\ pc = "scanned"
    /\ ReplayIdle

\* score = match_path(path, pattern, mode, case_sensitive) on a path of the index
CallMatchPath ==
    /\ pc = "scanned"
    /\ \E k \in 1..Len(file_index) : \E pattern \in Patterns :
       \E mode \in {GLOB, REGEX} : \E case_sensitive \in BOOLEAN :
          /\ call' = [fn |-> "match_path",
                      arg |-> [path |-> file_index[k].path, pattern |-> pattern,
                               mode |-> mode, case_sensitive |-> case_sensitive]]
          /\ result' = MatchPath(file_index[k].path, pattern, mode, case_sensitive)
    /\ pc' = "matched"
    /\ UNCHANGED <<operations, heap, jsonl_files, futures, all_ops, completed,
                   raw_file_index, file_index>>

\* error = validate_regex(pattern)
CallValidateRegex ==
    /\ pc = "scanned"
    /\ \E pattern \in Patterns :
          /\ call' = [fn |-> "validate_regex", arg |-> [pattern |-> pattern]]
          /\ result' = ValidateRegex(pattern)
    /\ pc' = "validated"
    /\ UNCHANGED <<operations, heap, jsonl_files, futures, all_ops, completed,
                   raw_file_index, file_index>>

\* files = filter_files(files, filter_pattern, mode, case_override) in the CLI:
\* result is the error value the caller gets, None as filter_files has none
CallFilterFiles ==
    /\ pc = "scanned"
    /\ \E pattern \in Patterns : \E mode \in {GLOB, REGEX} :
       \E override \in {"none", "sensitive", "insensitive"} :
          /\ call' = [fn |-> "filter_files",
                      arg |-> [pattern |-> pattern, mode |-> mode,
                               case_sensitive_override |-> override]]
          /\ file_index' = FilterFiles(file_index, pattern, mode, override)
          /\ result' = None
    /\ pc' = "filtered"
    /\ UNCHANGED <<operations, heap, jsonl_files, futures, all_ops, completed,
                   raw_file_index>>

NextFilter == CallMatchPath \/ CallValidateRegex \/ CallFilterFiles

SpecFilter == InitFilter /\ [][NextFilter]_vars

\* C30 (as claimed): for a pattern that is no valid regular expression,
\* match_path in regex mode returns 0, validate_regex returns an error
\* message, and filter_files in regex mode hands the caller an error and leaves
\* the index as it was
C30_InvalidRegexReported ==
    /\ (pc = "matched" /\ call.arg.mode = REGEX /\ ReError(call.arg.pattern))
          => result = 0
    /\ (pc = "validated" /\ ReError(call.arg.pattern)) => result # None
    /\ (pc = "filtered" /\ call.arg.mode = REGEX /\ ReError(call.arg.pattern))
          => /\ result # None
             /\ file_index = raw_file_index

\* C30 for match_path and validate_regex alone
C30_InvalidRegexNotThrown ==
    /\ (pc = "matched" /\ call.arg.mode = REGEX /\ ReError(call.arg.pattern))
          => result = 0
    /\ (pc = "validated" /\ ReError(call.arg.pattern)) => result # None
    /\ (pc = "validated" /\ ~ReError(call.arg.pattern)) => result = None


(***************************************************************************)
(* C31: timeline membership                                                *)
(***************************************************************************)
\* every operation of every timeline of an index carries the timeline's key
\* as its path
KeyedByPath(index) ==
    \A k \in 1..Len(index) : \A i \in 1..Len(index[k].operations) :
        heap[index[k].operations[i]].file_path = index[k].path

\* C31: in every index, after scan_all_sessions and after merge_file_index,
\* every operation stored in the timeline keyed K has path = K
C31_TimelineMembership ==
    pc \in {"scanned", "merged"} =>
        KeyedByPath(raw_file_index) /\ KeyedByPath(file_index)

\* C31, the part the code keeps: the index scan_all_sessions returns is keyed
\* by the path of its operations
C31_TimelineMembershipAfterScan ==
    pc = "scanned" => KeyedByPath(raw_file_index) /\ KeyedByPath(file_index)


(***************************************************************************)
(* C32: the two time-bounded routes                                        *)
(***************************************************************************)
\* one file of the index with a sorted timeline; operations holds the
\* timeline as reconstruct_at_timestamp is handed it
InitRoutes ==
    /\ \E len \in 0..MaxTimedOps : \E f \in [1..len -> TimedOps] :
          \E ts \in [1..len -> 1..MaxTs] :
              /\ NonDecreasing(ts)
              /\ operations = [k \in 1..len |->
                                 [Stamped(f, ts)[k] EXCEPT !.file_path = PathP]]
              /\ heap = operations
              /\ raw_file_index =
                    <<[path |-> PathP, operations |-> [k \in 1..len |-> k]]>>
    /\ file_index = raw_file_index
    /\ jsonl_files = <<>>
    /\ futures = {}
    /\ all_ops = <<>>
    /\ completed = 0
    /\ call = NoCall
    /\ result = None
    /\ pc = "scanned"

\* files = filter_by_timestamp(files, before_ts) with a cutoff that is given
CallFilterByTimestamp ==
    /\ pc = "scanned"
    /\ \E before_ts \in 0..MaxTs :
        /\ file_index' = FilterByTimestamp(heap, raw_file_index, before_ts)
        /\ call' = [fn |-> "filter_by_timestamp", arg |-> before_ts]
    /\ pc' = "trimmed"
    /\ UNCHANGED <<operations, result, heap, jsonl_files, futures, all_ops,
                   completed, raw_file_index>>

\* reconstruct_latest(rf) for the file the filter kept
CallReconstructLatestOfTrimmed ==
    /\ pc = "trimmed"
    /\ Len(file_index) > 0
    /\ result' = ReconstructLatest(Timeline(heap, file_index[1].operations))
    /\ pc' = "reconstructed"
    /\ UNCHANGED <<operations, call, heap, jsonl_files, futures, all_ops,
                   completed, raw_file_index, file_index>>

NextRoutes == CallFilterByTimestamp \/ CallReconstructLatestOfTrimmed

SpecRoutes == InitRoutes /\ [][NextRoutes]_vars

\* C32: for every sorted timeline T and cutoff c, reconstruct_latest of the
\* timeline trimmed by filter_by_timestamp(c) equals
\* reconstruct_at_timestamp(T, c), and filter_by_timestamp drops the file
\* exactly when T has no operation at or before c
C32_RoutesAgree ==
    /\ pc \in {"trimmed", "reconstructed"} =>
          (Len(file_index) = 0 <=>
              ~\E k \in 1..Len(operations) : operations[k].timestamp <= call.arg)
    /\ pc = "trimmed" /\ Len(file_index) = 0 =>
          ReconstructAtTimestamp(operations, call.arg) = None
    /\ pc = "reconstructed" =>
          result = ReconstructAtTimestamp(operations, call.arg)

\* C32 witness: the cutoff trims the timeline and the trimmed timeline has a
\* content
C32_Witness ==
    /\ pc = "reconstructed"
    /\ result # None
    /\ Len(file_index[1].operations) < Len(operations)
    /\ result # ReconstructLatest(operations)


(***************************************************************************)
(* C33: _filter_noop_edits_by_replay against the replay                    *)
(***************************************************************************)
\* a sorted timeline T of one path, as scan_all_sessions hands it to the
\* filter
MaxNoopOps == 3       \* operations in a timeline handed to the filter

\* operations of the filter runs: Writes, a snapshot, Reads, Edits with and
\* without the pre-edit file, Edits that change nothing, errored Edits
NoopOps ==
    {[Blank(WRITE_CREATE) EXCEPT !.content = T_aba],
     [Blank(WRITE_CREATE) EXCEPT !.content = None],
     [Blank(FILE_HISTORY) EXCEPT !.content = T_b],
     ReadOp(T_b, <<NoInt, NoInt, 2, 1, 3>>),
     [Blank(EDIT) EXCEPT !.old_string = T_a, !.new_string = T_b],
     [Blank(EDIT) EXCEPT !.old_string = T_c, !.new_string = T_b],
     [Blank(EDIT) EXCEPT !.original_file = T_aba, !.old_string = T_a,
                         !.new_string = T_b],
     [Blank(EDIT) EXCEPT !.original_file = T_aba, !.old_string = T_c,
                         !.new_string = T_b],
     [Blank(EDIT) EXCEPT !.old_string = T_a, !.new_string = T_c,
                         !.is_error = TRUE],
     [Blank(EDIT) EXCEPT !.original_file = T_aba, !.old_string = T_a,
                         !.new_string = T_b, !.replace_all = TRUE,
                         !.is_error = TRUE]}

InitNoop ==
    /\ \E len \in 0..MaxNoopOps : \E f \in [1..len -> NoopOps] :
          operations = Stamped(f, [k \in 1..len |-> k])
    /\ heap = operations
    /\ all_ops = [k \in 1..Len(operations) |-> k]
    /\ raw_file_index = <<>>
    /\ file_index = <<>>
    /\ jsonl_files = <<>>
    /\ futures = {}
    /\ completed = 0
    /\ call = NoCall
    /\ result = None
    /\ pc = "sorted"

\* rf.operations = _filter_noop_edits_by_replay(rf.operations)
CallFilterNoopEditsByReplay ==
    /\ pc = "sorted"
    /\ file_index' = <<[path |-> PathP,
                        operations |-> FilterNoopEditsByReplay(heap, all_ops)]>>
    /\ pc' = "filtered"
    /\ UNCHANGED <<operations, call, result, heap, jsonl_files, futures,
                   all_ops, completed, raw_file_index>>

\* a query on the filtered timeline T': reconstruct_latest (arg 0) or
\* reconstruct_file_at at the index of its k-th operation (arg k)
QueryFiltered ==
    /\ pc = "filtered"
    /\ LET kept == Timeline(heap, file_index[1].operations)
       IN  \E k \in 0..Len(kept) :
              /\ call' = [fn |-> IF k = 0 THEN "reconstruct_latest"
                                 ELSE "reconstruct_file_at",
                          arg |-> k]
              /\ result' = IF k = 0 THEN ReconstructLatest(kept)
                           ELSE ReconstructFileAt(kept, k - 1)
    /\ pc' = "queried"
    /\ UNCHANGED <<operations, heap, jsonl_files, futures, all_ops, completed,
                   raw_file_index, file_index>>

NextNoop == CallFilterNoopEditsByReplay \/ QueryFiltered

SpecNoop == InitNoop /\ [][NextNoop]_vars

\* the answer of the same query on the unfiltered timeline T
OnUnfiltered ==
    IF call.arg = 0 THEN ReconstructLatest(operations)
    ELSE ReconstructFileAt(operations,
                           PositionIn(all_ops,
                                      file_index[1].operations[call.arg]) - 1)

\* C33: for every sorted timeline T (errored operations included) and
\* T' = _filter_noop_edits_by_replay(T), reconstruct_latest(T') equals
\* reconstruct_latest(T), and for every operation kept in T' the content
\* reconstructed at its index in T' equals the content reconstructed at its
\* index in T
C33_FilterKeepsReconstruction ==
    pc = "queried" => result = OnUnfiltered

\* C33 on the timelines without an errored Edit and without an Edit that the
\* field-level rule of scan_session has already removed
C33_FilterKeepsReconstructionOfScanned ==
    (/\ pc = "queried"
     /\ \A k \in 1..Len(operations) :
           /\ ~(operations[k].type = EDIT /\ operations[k].is_error)
           /\ ~IsNoopEdit(operations[k]))
        => result = OnUnfiltered

\* C33 on the timelines scan_session can return, errored Edits included
C33_FilterKeepsReconstructionOfFieldLevel ==
    (/\ pc = "queried"
     /\ \A k \in 1..Len(operations) : ~IsNoopEdit(operations[k]))
        => result = OnUnfiltered


(***************************************************************************)
(* C34: the kind of an operation during correlation                        *)
(***************************************************************************)
\* the name of the tool_use block an operation was emitted from
EmittedFrom(op) ==
    LET blocks == jsonl_files[1].lines[op.line_number].content
        b == CHOOSE b \in 1..Len(blocks) :
                 blocks[b].type = "tool_use" /\ blocks[b].id = op.tool_use_id
    IN  blocks[b].name

\* the operations scan_session returns that came from a tool_use block
FromInvocation ==
    {k \in 1..Len(result.ops) : result.ops[k].tool_use_id # None}

\* C34: when scan_session returns, an operation emitted from an Edit
\* invocation is an Edit, one emitted from a Read invocation is a Read, and
\* one emitted from a Write invocation is a WriteCreate or a WriteUpdate
C34_KindStability ==
    pc = "returned" =>
        \A k \in FromInvocation :
            LET op == result.ops[k]
            IN  /\ EmittedFrom(op) = "Edit" => op.type = EDIT
                /\ EmittedFrom(op) = "Read" => op.type = READ
                /\ EmittedFrom(op) = "Write"
                      => op.type \in {WRITE_CREATE, WRITE_UPDATE}


(***************************************************************************)
(* C35: has_full_content and what the replay returns                       *)
(***************************************************************************)
\* C35: for every timeline produced by a scan, if has_full_content is true
\* then reconstruct_latest returns a content
C35_FullContentRecoverable ==
    pc = "indexed" =>
        \A k \in 1..Len(file_index) :
            LET ops == Timeline(heap, file_index[k].operations)
            IN  HasFullContent(ops) => ReconstructLatest(ops) # None


(***************************************************************************)
(* C36: a content, once known, stays known                                 *)
(***************************************************************************)
\* C36: for every timeline T and indices i <= j, if reconstruct_at(T, i) is
\* present then reconstruct_at(T, j) is present
C36_KnownStaysKnown ==
    (call.fn = "reconstruct_file_at" /\ result # None)
        => \A j \in call.arg..(Len(operations) - 1) :
              ReconstructFileAt(operations, j) # None

\* C36 on the timelines whose Writes all carry a content
C36_KnownStaysKnownWithWrittenContent ==
    (/\ call.fn = "reconstruct_file_at" /\ result # None
     /\ \A k \in 1..Len(operations) :
           operations[k].type \in {WRITE_CREATE, WRITE_UPDATE}
              => operations[k].content # None)
        => \A j \in call.arg..(Len(operations) - 1) :
              ReconstructFileAt(operations, j) # None


(***************************************************************************)
(* The TUI's symlink state (tui/app.py, symlink_review_screen.py,          *)
(* file_list_screen.py).  result holds the app's fields merged_file_index, *)
(* symlinks_enabled and symlink_groups; file_index is app.file_index, pc   *)
(* the screen on top of the stack, call the last action.                   *)
(***************************************************************************)
MaxTuiOps == 2        \* operations in the index the TUI is started with

\* merged_file_index is <<>> while it is None and <<index>> once it is set
NoIndex == <<>>

\* FileRecoveryApp.__init__ and on_mount, up to the symlink review screen
InitTui ==
    /\ \E n \in 0..MaxTuiOps : \E paths \in [1..n -> MergePaths] :
          /\ heap = [id \in 1..n |->
                       [Blank(WRITE_CREATE) EXCEPT !.file_path = paths[id],
                                                   !.timestamp = 1,
                                                   !.line_number = id,
                                                   !.content = T_a]]
          /\ all_ops = [id \in 1..n |-> id]
    /\ raw_file_index = Aggregated(heap, all_ops)
    /\ file_index = raw_file_index
    /\ \E groups \in GroupLists :
          result = [merged_file_index |-> NoIndex, symlinks_enabled |-> FALSE,
                    symlink_groups |-> groups]
    /\ call = NoCall
    /\ operations = <<>>
    /\ jsonl_files = <<>>
    /\ futures = {}
    /\ completed = 0
    /\ pc = "symlink_review"

\* list.pop(i)
Pop(s, i) == SubSeq(s, 1, i - 1) \o SubSeq(s, i + 1, Len(s))

\* SymlinkReviewScreen.action_delete_alias on a highlighted alias entry
ActionDeleteAlias ==
    /\ pc = "symlink_review"
    /\ \E group_idx \in 1..Len(result.symlink_groups) :
       \E alias_idx \in 1..Len(result.symlink_groups[group_idx].aliases) :
          /\ result' = [result EXCEPT
                          !.symlink_groups[group_idx].aliases = Pop(@, alias_idx)]
          /\ call' = [fn |-> "action_delete_alias", arg |-> <<group_idx, alias_idx>>]
    /\ UNCHANGED <<operations, heap, jsonl_files, futures, all_ops, completed,
                   raw_file_index, file_index, pc>>

\* SymlinkReviewScreen.action_skip_symlinks
ActionSkipSymlinks ==
    /\ pc = "symlink_review"
    /\ result' = [result EXCEPT !.symlinks_enabled = FALSE]
    /\ file_index' = raw_file_index
    /\ call' = [fn |-> "action_skip_symlinks", arg |-> 0]
    /\ pc' = "file_list"
    /\ UNCHANGED <<operations, heap, jsonl_files, futures, all_ops, completed,
                   raw_file_index>>

\* mutant: the index on display is left as it was
ActionConfirmKeepingIndex ==
    /\ pc = "symlink_review"
    /\ LET active_groups == SelectSeq(result.symlink_groups,
                                      LAMBDA g : Len(g.aliases) > 0)
           merged == MergeFileIndex(heap, raw_file_index, active_groups)
       IN  /\ heap' = merged.heap
           /\ result' = [merged_file_index |-> <<merged.index>>,
                         symlinks_enabled |-> TRUE,
                         symlink_groups |-> active_groups]
           /\ file_index' = file_index
           /\ call' = [fn |-> "action_confirm", arg |-> active_groups]
    /\ pc' = "file_list"
    /\ UNCHANGED <<operations, jsonl_files, futures, all_ops, completed,
                   raw_file_index>>

\* SymlinkReviewScreen.action_confirm
ActionConfirm ==
    /\ pc = "symlink_review"
    /\ LET active_groups == SelectSeq(result.symlink_groups,
                                      LAMBDA g : Len(g.aliases) > 0)
           merged == MergeFileIndex(heap, raw_file_index, active_groups)
       IN  /\ heap' = merged.heap
           /\ result' = [merged_file_index |-> <<merged.index>>,
                         symlinks_enabled |-> TRUE,
                         symlink_groups |-> active_groups]
           /\ file_index' = merged.index
           /\ call' = [fn |-> "action_confirm", arg |-> active_groups]
    /\ pc' = "file_list"
    /\ UNCHANGED <<operations, jsonl_files, futures, all_ops, completed,
                   raw_file_index>>

\* `if app.merged_file_index:` is false for None and for an empty dict
DictTruthy(merged_file_index) ==
    merged_file_index # NoIndex /\ Len(merged_file_index[1]) > 0

\* FileListScreen.action_toggle_symlinks; detect_fs_symlinks answers with
\* whatever groups the file system shows
ActionToggleSymlinks ==
    /\ pc = "file_list"
    /\ IF result.symlinks_enabled
       THEN /\ result' = [result EXCEPT !.symlinks_enabled = FALSE]
            /\ file_index' = raw_file_index
            /\ pc' = pc
       ELSE IF DictTruthy(result.merged_file_index)
       THEN /\ result' = [result EXCEPT !.symlinks_enabled = TRUE]
            /\ file_index' = result.merged_file_index[1]
            /\ pc' = pc
       ELSE /\ \E groups \in GroupLists :
                  result' = [result EXCEPT !.symlink_groups = groups]
            /\ file_index' = file_index
            /\ pc' = "symlink_review"
    /\ call' = [fn |-> "action_toggle_symlinks", arg |-> 0]
    /\ UNCHANGED <<operations, heap, jsonl_files, futures, all_ops, completed,
                   raw_file_index>>

\* FileListScreen.action_open_symlinks
ActionOpenSymlinks ==
    /\ pc = "file_list"
    /\ pc' = "symlink_review"
    /\ call' = [fn |-> "action_open_symlinks", arg |-> 0]
    /\ UNCHANGED <<operations, result, heap, jsonl_files, futures, all_ops,
                   completed, raw_file_index, file_index>>

NextTui ==
    \/ ActionDeleteAlias
    \/ ActionSkipSymlinks
    \/ ActionConfirm
    \/ ActionToggleSymlinks
    \/ ActionOpenSymlinks

SpecTui == InitTui /\ [][NextTui]_vars

\* the key under which the raw index holds an operation
RawPath(id) ==
    raw_file_index[CHOOSE k \in 1..Len(raw_file_index) :
                      \E i \in 1..Len(raw_file_index[k].operations) :
                          raw_file_index[k].operations[i] = id].path

\* C37: after any sequence of merge_file_index calls on the same raw index
\* with changing groups, an operation in the latest merged index has
\* source_path set if and only if its raw path was rewritten by that latest
\* merge, and then source_path equals its raw path
C37_SourcePathOfLatestMerge ==
    result.merged_file_index # NoIndex =>
        \A k \in 1..Len(result.merged_file_index[1]) :
            LET rf == result.merged_file_index[1][k]
            IN  \A i \in 1..Len(rf.operations) :
                   LET id == rf.operations[i]
                   IN  /\ heap[id].source_path # None <=> RawPath(id) # rf.path
                       /\ heap[id].source_path # None
                             => heap[id].source_path = RawPath(id)

\* C37 for the first merge of a session
C37_SourcePathOfFirstMerge ==
    [][(ActionConfirm /\ result.merged_file_index = NoIndex)
          => C37_SourcePathOfLatestMerge']_vars


(***************************************************************************)
(* C38: strip_injected_content applied twice                               *)
(***************************************************************************)
\* the second strip_injected_content of InjectionReviewScreen.action_confirm:
\* the same patterns over an index that shares its operations with the first
StripInjectedAgain ==
    /\ pc = "stripped"
    /\ LET stripped == StripInjectedContent(heap, file_index, call.arg)
       IN  /\ heap' = stripped.heap
           /\ result' = stripped.modified
    /\ pc' = "stripped_again"
    /\ UNCHANGED <<operations, call, jsonl_files, futures, all_ops, completed,
                   raw_file_index, file_index>>

NextStripTwice == StripInjected \/ StripInjectedAgain

SpecStripTwice == InitStrip /\ [][NextStripTwice]_vars

\* C38: applying strip_injected_content a second time with the same patterns
\* changes no Read content and returns 0
C38_StripIdempotent ==
    [][StripInjectedAgain => (heap' = heap /\ result' = 0)]_vars


(***************************************************************************)
(* C39: the index the TUI lists and extracts from                          *)
(***************************************************************************)
\* C39: after any sequence of symlink confirm, skip and toggle actions,
\* app.file_index is the merged index when symlinks_enabled is true and the
\* raw index when it is false, and symlinks_enabled is true only if a merged
\* index exists
C39_ActiveIndex ==
    /\ result.symlinks_enabled
          => /\ result.merged_file_index # NoIndex
             /\ file_index = result.merged_file_index[1]
    /\ ~result.symlinks_enabled => file_index = raw_file_index

\* C39 witness: deduplication was switched off and on again and the index on
\* display is the merged one, which differs from the raw one
C39_Witness ==
    /\ call.fn = "action_toggle_symlinks"
    /\ result.symlinks_enabled
    /\ file_index = result.merged_file_index[1]
    /\ file_index # raw_file_index

=============================================================================
